---- MODULE Spec2Model ----
(***************************************************************************)
(* yt-mcp-server: the in-memory OAuth token holder (InMemoryTokenStore),   *)
(* the OAuth session manager (GoogleOAuthService) and its background       *)
(* refresher.                                                              *)
(*                                                                         *)
(* Eight specifications share this module.                                 *)
(*   SpecStore  the token holder at the granularity of its sync.RWMutex:   *)
(*              callers run GetToken / SetToken step by step, tokens live  *)
(*              on a heap so that pointer aliasing is visible.             *)
(*   SpecStoreMutate  the same with callers that write through the pointer *)
(*              a GetToken returned to them.                               *)
(*   Spec       the session manager: request goroutines, the background    *)
(*              refresher, the provider and the clock.  GetToken and       *)
(*              SetToken are single steps there (their critical sections). *)
(*   SpecCtx    the refresher under a ctx that can be cancelled, with      *)
(*              fairness for its steps and for its ctx.Done() case.        *)
(*   SpecHttp   the HTTP layer over the session manager: one request       *)
(*              goroutine serving any route (the gate, the MCP dispatcher, *)
(*              the OAuth callback), beside the refresher and the clock.   *)
(*   SpecMain   the process: main from config.Load to the listener, the    *)
(*              refresher as main starts it, and the shutdown on a signal. *)
(*   SpecLazy   the session manager without the refresher: request         *)
(*              goroutines and the clock only.                             *)
(*   SpecRevoked  the HTTP layer and the refresher with a provider that    *)
(*              rejects every refresh after the first authorization, with  *)
(*              fairness for the ticker and the refresher.                 *)
(*                                                                         *)
(* A token is a record [access, refresh, expiry]: access and refresh are   *)
(* opaque strings modelled as numbers with 0 the empty string, expiry is   *)
(* a time in seconds with 0 the zero time.                                 *)
(***************************************************************************)
EXTENDS Integers, Sequences, FiniteSets, TLC

\* the value of a nil *oauth2.Token (no credential)
NIL == [nil |-> TRUE]

\* the nil pointer
NilPtr == 0

Tok(a, r, e) == [access |-> a, refresh |-> r, expiry |-> e]

(***************************************************************************)
(* Part 1.  InMemoryTokenStore under its lock.                             *)
(***************************************************************************)

\* goroutines calling into the store: two request handlers and the refresher
Callers == {"req1", "req2", "bg"}

\* heap cells available for *oauth2.Token values
NumAddr == 4
Addr == 1..NumAddr

\* number of SetToken calls followed
MaxWrites == 2

\* a heap cell nothing points to
Free == [free |-> TRUE]

\* credentials handed to SetToken in the store-level model
CredValues == {Tok(1, 1, 3600), Tok(2, 1, 4500)}

VARIABLES
    heap,        \* Addr -> token record or Free
    ts_token,    \* InMemoryTokenStore.token: an address or NilPtr
    mu_readers,  \* goroutines holding mu.RLock
    mu_w,        \* goroutines past the writer gate of mu.Lock (pending or active)
    mu_writers,  \* goroutines holding mu.Lock
    cpc,         \* per caller: its position
    cptr,        \* per caller: the pointer it holds (argument, result) or NilPtr
    cstart,      \* per caller: number of SetToken calls returned when its GetToken began
    cobs,        \* per caller: sequence number of the write its GetToken read
    cmut,        \* per caller: it has written through the pointer GetToken gave it
    cfrom,       \* per caller: where the pointer it holds came from: GetToken ("get"),
                 \* the provider ("new"), or "none"
    wseq,        \* sequence number of the last write to ts_token
    wdone,       \* highest sequence number of a SetToken that has returned
    lastSet      \* the value handed to the last SetToken that wrote (NIL at start)

storeVars == <<heap, ts_token, mu_readers, mu_w, mu_writers, cpc, cptr,
               cstart, cobs, cmut, cfrom, wseq, wdone, lastSet>>

\* the session manager's state (Part 2)
VARIABLES
    now,          \* the clock
    tickPending,  \* a tick waits in ticker.C
    cancelled,    \* the refresher's ctx is done
    tokenStore,   \* the token holder's value: a token or NIL
    issued,       \* number of tokens the provider has issued
    req,          \* per request goroutine: its call and where it stands
    bg,           \* the refresher goroutine
    lastWrite,    \* who wrote the holder last, and by which path
    lateWrite     \* the refresher has written the holder after its ctx was done

sysVars == <<now, tickPending, cancelled, tokenStore, issued, req, bg,
             lastWrite, lateWrite>>

\* the HTTP layer's state (Part 3)
VARIABLES
    http          \* per request goroutine: the HTTP request it serves and its response

\* the process (Part 4)
VARIABLES
    proc          \* main: its position, the environment, the Config, the goroutines it started

vars == <<storeVars, sysVars, http, proc>>

\* value behind a pointer
Deref(h, p) == IF p = NilPtr THEN NIL ELSE h[p]

\* cells reachable from the store or a caller
Refs(st, ptrs) == ({st} \cup {ptrs[c] : c \in Callers}) \ {NilPtr}

\* unreachable cells are reclaimed
Collect(h, st, ptrs) == [a \in Addr |-> IF a \in Refs(st, ptrs) THEN h[a] ELSE Free]

\* the cell a new value is allocated in
NewAddr(st, ptrs) == CHOOSE a \in Addr \ Refs(st, ptrs) : \A b \in Addr \ Refs(st, ptrs) : a <= b

InitStore ==
    /\ heap = [a \in Addr |-> Free]
    /\ ts_token = NilPtr
    /\ mu_readers = {}
    /\ mu_w = {}
    /\ mu_writers = {}
    /\ cpc = [c \in Callers |-> "idle"]
    /\ cptr = [c \in Callers |-> NilPtr]
    /\ cstart = [c \in Callers |-> 0]
    /\ cobs = [c \in Callers |-> 0]
    /\ cmut = [c \in Callers |-> FALSE]
    /\ cfrom = [c \in Callers |-> "none"]
    /\ wseq = 0
    /\ wdone = 0
    /\ lastSet = NIL

\* ---- sync.RWMutex ----

\* RLock ignoring writers
RLockNoWriterCheck(c) ==
    /\ mu_readers' = mu_readers \cup {c}
    /\ UNCHANGED <<mu_w, mu_writers>>

\* mu.RLock(): blocks while a writer is active or pending
RLock(c) ==
    /\ mu_w = {}
    /\ mu_readers' = mu_readers \cup {c}
    /\ UNCHANGED <<mu_w, mu_writers>>

\* mu.RUnlock()
RUnlock(c) ==
    /\ mu_readers' = mu_readers \ {c}
    /\ UNCHANGED <<mu_w, mu_writers>>

\* mu.Lock(), first half: pass the writer gate, which also stops new readers
LockGate(c) ==
    /\ mu_w = {}
    /\ mu_w' = {c}
    /\ UNCHANGED <<mu_readers, mu_writers>>

\* mu.Lock(), second half: wait for the active readers to leave
LockAcquire(c) ==
    /\ c \in mu_w
    /\ mu_readers = {}
    /\ mu_writers' = mu_writers \cup {c}
    /\ UNCHANGED <<mu_readers, mu_w>>

\* mu.Unlock()
Unlock(c) ==
    /\ mu_writers' = mu_writers \ {c}
    /\ mu_w' = mu_w \ {c}
    /\ UNCHANGED mu_readers

\* ---- GetToken ----

\* a caller begins GetToken; what it held from an earlier call is dropped
GetTokenCall(c) ==
    /\ cpc[c] = "idle"
    /\ cpc' = [cpc EXCEPT ![c] = "g_rlock"]
    /\ cptr' = [cptr EXCEPT ![c] = NilPtr]
    /\ heap' = Collect(heap, ts_token, cptr')
    /\ cstart' = [cstart EXCEPT ![c] = wdone]
    /\ cmut' = [cmut EXCEPT ![c] = FALSE]
    /\ cfrom' = [cfrom EXCEPT ![c] = "none"]
    /\ UNCHANGED <<sysVars, http, proc, ts_token, mu_readers, mu_w, mu_writers, cobs, wseq, wdone, lastSet>>

GetTokenRLock(c) ==
    /\ cpc[c] = "g_rlock"
    /\ RLock(c)
    /\ cpc' = [cpc EXCEPT ![c] = "g_read"]
    /\ UNCHANGED <<sysVars, http, proc, heap, ts_token, cptr, cstart, cobs, cmut, cfrom, wseq, wdone, lastSet>>

\* if ts.token == nil { return nil }; tokenCopy := *ts.token; return &tokenCopy
GetTokenRead(c) ==
    /\ cpc[c] = "g_read"
    /\ IF ts_token = NilPtr
       THEN /\ cptr' = [cptr EXCEPT ![c] = NilPtr]
            /\ cfrom' = [cfrom EXCEPT ![c] = "none"]
            /\ heap' = heap
       ELSE LET a == NewAddr(ts_token, cptr) IN
            /\ cptr' = [cptr EXCEPT ![c] = a]
            /\ cfrom' = [cfrom EXCEPT ![c] = "get"]
            /\ heap' = [heap EXCEPT ![a] = heap[ts_token]]
    /\ cobs' = [cobs EXCEPT ![c] = wseq]
    /\ cpc' = [cpc EXCEPT ![c] = "g_runlock"]
    /\ UNCHANGED <<sysVars, http, proc, ts_token, mu_readers, mu_w, mu_writers, cstart, cmut, wseq, wdone, lastSet>>

\* defer ts.mu.RUnlock(); the caller now owns the result
GetTokenReturn(c) ==
    /\ cpc[c] = "g_runlock"
    /\ RUnlock(c)
    /\ cpc' = [cpc EXCEPT ![c] = "idle"]
    /\ cstart' = [cstart EXCEPT ![c] = 0]
    /\ cobs' = [cobs EXCEPT ![c] = 0]
    /\ UNCHANGED <<sysVars, http, proc, heap, ts_token, cptr, cmut, cfrom, wseq, wdone, lastSet>>

\* the caller writes a field of the token GetToken returned to it
MutateReturned(c) ==
    /\ cpc[c] = "idle"
    /\ cptr[c] # NilPtr
    /\ cfrom[c] = "get"
    /\ ~cmut[c]
    /\ \E f \in {"access", "expiry"} :
          heap' = [heap EXCEPT ![cptr[c]] = [@ EXCEPT ![f] = 0]]
    /\ cmut' = [cmut EXCEPT ![c] = TRUE]
    /\ UNCHANGED <<sysVars, http, proc, cfrom, ts_token, mu_readers, mu_w, mu_writers, cpc, cptr, cstart, cobs, wseq, wdone, lastSet>>

\* ---- SetToken ----

\* a caller begins SetToken: with nil (the refresher's clear), with a token
\* the provider has just answered (an exchange, a refresh), or with the very
\* pointer GetToken returned to it, which the token source hands back while
\* the token is valid (the refresher: GetToken, Token(), SetToken(newToken))
SetTokenCall(c) ==
    /\ cpc[c] = "idle"
    /\ wseq + Cardinality({d \in Callers : cpc[d] \in {"s_lock", "s_wait", "s_write"}}) < MaxWrites
    /\ \/ \E v \in CredValues \cup {NIL} :
             /\ cmut' = [cmut EXCEPT ![c] = FALSE]
             /\ LET dropped == [cptr EXCEPT ![c] = NilPtr]
                    a == NewAddr(ts_token, dropped)
                IN IF v = NIL
                   THEN /\ cptr' = dropped
                        /\ cfrom' = [cfrom EXCEPT ![c] = "none"]
                        /\ heap' = Collect(heap, ts_token, cptr')
                   ELSE /\ cptr' = [cptr EXCEPT ![c] = a]
                        /\ cfrom' = [cfrom EXCEPT ![c] = "new"]
                        /\ heap' = [Collect(heap, ts_token, dropped) EXCEPT ![a] = v]
       \/ /\ cptr[c] # NilPtr
          /\ cfrom[c] = "get"
          /\ UNCHANGED <<cptr, cfrom, heap, cmut>>
    /\ cpc' = [cpc EXCEPT ![c] = "s_lock"]
    /\ UNCHANGED <<sysVars, http, proc, ts_token, mu_readers, mu_w, mu_writers, cstart, cobs, wseq, wdone, lastSet>>

SetTokenLock(c) ==
    /\ cpc[c] = "s_lock"
    /\ LockGate(c)
    /\ cpc' = [cpc EXCEPT ![c] = "s_wait"]
    /\ UNCHANGED <<sysVars, http, proc, heap, ts_token, cptr, cstart, cobs, cmut, cfrom, wseq, wdone, lastSet>>

SetTokenLocked(c) ==
    /\ cpc[c] = "s_wait"
    /\ LockAcquire(c)
    /\ cpc' = [cpc EXCEPT ![c] = "s_write"]
    /\ UNCHANGED <<sysVars, http, proc, heap, ts_token, cptr, cstart, cobs, cmut, cfrom, wseq, wdone, lastSet>>

\* ts.token = token
SetTokenWrite(c) ==
    /\ cpc[c] = "s_write"
    /\ ts_token' = cptr[c]
    /\ heap' = Collect(heap, ts_token', cptr)
    /\ wseq' = wseq + 1
    /\ cobs' = [cobs EXCEPT ![c] = wseq + 1]
    /\ lastSet' = Deref(heap, cptr[c])
    /\ cpc' = [cpc EXCEPT ![c] = "s_unlock"]
    /\ UNCHANGED <<sysVars, http, proc, mu_readers, mu_w, mu_writers, cptr, cstart, cmut, cfrom, wdone>>

\* defer ts.mu.Unlock(); the caller still holds the pointer it passed, which
\* is now the stored one (SetToken does not copy)
SetTokenReturn(c) ==
    /\ cpc[c] = "s_unlock"
    /\ Unlock(c)
    /\ wdone' = IF cobs[c] > wdone THEN cobs[c] ELSE wdone
    /\ cobs' = [cobs EXCEPT ![c] = 0]
    /\ cpc' = [cpc EXCEPT ![c] = "idle"]
    /\ UNCHANGED <<sysVars, http, proc, heap, ts_token, cptr, cstart, cmut, cfrom, wseq, lastSet>>

NextStore ==
    \E c \in Callers :
        \/ GetTokenCall(c)
        \/ GetTokenRLock(c)
        \/ GetTokenRead(c)
        \/ GetTokenReturn(c)
        \/ SetTokenCall(c)
        \/ SetTokenLock(c)
        \/ SetTokenLocked(c)
        \/ SetTokenWrite(c)
        \/ SetTokenReturn(c)

\* the store with callers that also write through the pointers GetToken gave
\* them
NextStoreMutate ==
    \/ NextStore
    \/ \E c \in Callers : MutateReturned(c)

(***************************************************************************)
(* Part 2.  GoogleOAuthService: code exchange, client acquisition with     *)
(* lazy refresh, IsAuthenticated, and the background TokenRefresher.       *)
(* Time is in seconds.  The clock moves one ticker period at a time; each  *)
(* move makes the refresher's ticker fire.                                 *)
(***************************************************************************)

\* time.NewTicker(15 * time.Minute)
TickerInterval == 900

\* time.Now().Add(30*time.Minute)
RefreshWindow == 1800

\* oauth2's default expiry delta: a token counts as expired 10 s early
ExpiryDelta == 10

\* expires_in of the provider's answers: 37.5 minutes here, so that a token is
\* valid for more than 30 minutes when issued, for less at the next two ticks,
\* and expired, its expiry in the past, at the third
TokenLifetime == (5 * TickerInterval) \div 2

\* clock moves followed
MaxTicks == 3

\* tokens the provider issues
MaxIssued == 3

\* request goroutines
Handlers == {"h1", "h2"}

\* a request goroutine with no call
IdleReq ==
    [pc |-> "idle", op |-> "none", tok |-> NIL, new |-> NIL, sent |-> NIL,
     acq |-> "none", out |-> "none", net |-> 0, api |-> 0, past |-> FALSE,
     lw |-> "none"]

\* the refresher waiting in its select
IdleBg == [pc |-> "select", tok |-> NIL, new |-> NIL, net |-> FALSE]

InitSys ==
    /\ now = 0
    /\ tickPending = FALSE
    /\ cancelled = FALSE
    /\ tokenStore = NIL
    /\ issued = 0
    /\ req = [h \in Handlers |-> IdleReq]
    /\ bg = IdleBg
    /\ lastWrite = [by |-> "none", kind |-> "none"]
    /\ lateWrite = FALSE

\* ---- oauth2.Token ----

\* Token.expired(): a zero expiry never expires
Expired(t, clock) == t.expiry # 0 /\ t.expiry - ExpiryDelta < clock

\* Token.Valid()
Valid(t, clock) == t # NIL /\ t.access # 0 /\ ~Expired(t, clock)

\* a refresher that looks after valid tokens only and passes over an
\* invalid one
NeedsProactiveRefreshValidOnly(t, clock) ==
    Valid(t, clock) /\ t.expiry < clock + RefreshWindow

\* a refresher that goes to the token source on every tick
NeedsProactiveRefreshAlways(t, clock) == TRUE

\* the refresher's test: !token.Valid() || token.Expiry.Before(now + 30 min)
NeedsProactiveRefresh(t, clock) == ~Valid(t, clock) \/ t.expiry < clock + RefreshWindow

\* a token source that hands back any token that has an access token,
\* whatever its expiry
TokenSourceStepNoExpiry(t, clock) ==
    IF t # NIL /\ t.access # 0 THEN "reuse"
    ELSE IF t = NIL \/ t.refresh = 0 THEN "fail"
    ELSE "refresh"

\* what tokenSource.Token() does before any network call:
\* "reuse" the token if valid, "fail" without a refresh token, else "refresh"
TokenSourceStep(t, clock) ==
    IF Valid(t, clock) THEN "reuse"
    ELSE IF t = NIL \/ t.refresh = 0 THEN "fail"
    ELSE "refresh"

\* the token a successful refresh of t yields: a new access token, the
\* refresh token carried over, a new expiry
RefreshedToken(t, n, clock) == Tok(n, t.refresh, clock + TokenLifetime)

\* the token a successful code exchange yields (offline access is requested,
\* so it carries a refresh token)
ExchangedToken(n, clock) == Tok(n, n, clock + TokenLifetime)

\* ---- the token holder, one critical section per call ----

\* InMemoryTokenStore.GetToken
GetToken == tokenStore

\* InMemoryTokenStore.SetToken, called by goroutine p on path kind
SetToken(p, v, kind) ==
    /\ tokenStore' = v
    /\ lastWrite' = [by |-> p, kind |-> kind]

\* an IsAuthenticated that asks for a valid token
IsAuthenticatedValid == Valid(GetToken, now)

\* GoogleOAuthService.IsAuthenticated
IsAuthenticated == GetToken # NIL

\* ---- ExchangeCodeForToken (GET /oauth/callback) ----

\* the handler sends the code to the provider's token endpoint
ExchangeCall(h) ==
    /\ req[h].pc = "idle"
    /\ req' = [req EXCEPT ![h] = [IdleReq EXCEPT !.pc = "x_exchange", !.op = "exchange"]]
    /\ UNCHANGED <<storeVars, http, proc, now, tickPending, cancelled, tokenStore, issued, bg, lastWrite, lateWrite>>

\* a failed exchange that clears the holder
ExchangeFailClears(h) ==
    /\ req[h].pc = "x_exchange"
    /\ SetToken(h, NIL, "exchange")
    /\ req' = [req EXCEPT ![h].pc = "idle", ![h].out = "exchange_error"]
    /\ UNCHANGED <<storeVars, http, proc, now, tickPending, cancelled, issued, bg, lateWrite>>

\* err != nil: return the error
ExchangeFail(h) ==
    /\ req[h].pc = "x_exchange"
    /\ req' = [req EXCEPT ![h].pc = "idle", ![h].out = "exchange_error"]
    /\ UNCHANGED <<storeVars, http, proc, now, tickPending, cancelled, tokenStore, issued, bg, lastWrite, lateWrite>>

\* oauthConfig.Exchange returns a token: the provider has answered, and the
\* token's expiry is counted from the answer; nothing is stored yet
ExchangeOk(h) ==
    /\ req[h].pc = "x_exchange"
    /\ issued < MaxIssued
    /\ issued' = issued + 1
    /\ req' = [req EXCEPT ![h].pc = "x_store", ![h].new = ExchangedToken(issued + 1, now)]
    /\ UNCHANGED <<storeVars, http, proc, now, tickPending, cancelled, tokenStore, bg, lastWrite, lateWrite>>

\* tokenStore.SetToken(token), return nil: the token Exchange returned is
\* stored, whatever the holder contains by now
ExchangeStore(h) ==
    /\ req[h].pc = "x_store"
    /\ SetToken(h, req[h].new, "exchange")
    /\ req' = [req EXCEPT ![h].pc = "idle", ![h].out = "ok"]
    /\ UNCHANGED <<storeVars, http, proc, now, tickPending, cancelled, issued, bg, lateWrite>>

\* ---- a YouTubeService call: GetYouTubeService, then one API request ----

\* GetYouTubeService relying on the gate: an absent credential is not looked
\* for and the service is built without one
AcquireTrustsGate(h) ==
    /\ req[h].pc = "idle"
    /\ LET t == GetToken
           r == [IdleReq EXCEPT !.op = "tool", !.tok = t,
                                !.past = (t # NIL /\ t.expiry < now)]
           step == TokenSourceStep(t, now)
       IN req' = [req EXCEPT ![h] =
                    IF t = NIL \/ step = "reuse"
                    THEN [r EXCEPT !.pc = "api", !.new = t, !.acq = "ok"]
                    ELSE IF step = "fail"
                    THEN [r EXCEPT !.acq = "refresh_error", !.out = "error"]
                    ELSE [r EXCEPT !.pc = "a_refresh", !.net = 1]]
    /\ UNCHANGED <<storeVars, http, proc, now, tickPending, cancelled, tokenStore, issued, bg, lastWrite, lateWrite>>

\* GetYouTubeService reporting an absent credential as a failed refresh
AcquireNoNilCheck(h) ==
    /\ req[h].pc = "idle"
    /\ LET t == GetToken
           r == [IdleReq EXCEPT !.op = "tool", !.tok = t,
                                !.past = (t # NIL /\ t.expiry < now)]
           step == TokenSourceStep(t, now)
       IN req' = [req EXCEPT ![h] =
                    IF step = "reuse"
                    THEN [r EXCEPT !.pc = "api", !.new = t, !.acq = "ok"]
                    ELSE IF step = "fail"
                    THEN [r EXCEPT !.acq = "refresh_error", !.out = "error"]
                    ELSE [r EXCEPT !.pc = "a_refresh", !.net = 1]]
    /\ UNCHANGED <<storeVars, http, proc, now, tickPending, cancelled, tokenStore, issued, bg, lastWrite, lateWrite>>

\* token := GetToken(); nil: not authenticated.  tokenSource.Token(): a valid
\* token is reused and, its access token being the one read, nothing is stored
\* and the service is built; an invalid one is refreshed over the network.
Acquire(h) ==
    /\ req[h].pc = "idle"
    /\ LET t == GetToken
           r == [IdleReq EXCEPT !.op = "tool", !.tok = t,
                                !.past = (t # NIL /\ t.expiry < now)]
           step == TokenSourceStep(t, now)
       IN req' = [req EXCEPT ![h] =
                    IF t = NIL
                    THEN [r EXCEPT !.acq = "not_authenticated", !.out = "error"]
                    ELSE IF step = "reuse"
                    THEN [r EXCEPT !.pc = "api", !.new = t, !.acq = "ok"]
                    ELSE IF step = "fail"
                    THEN [r EXCEPT !.acq = "refresh_error", !.out = "error"]
                    ELSE [r EXCEPT !.pc = "a_refresh", !.net = 1]]
    /\ UNCHANGED <<storeVars, http, proc, now, tickPending, cancelled, tokenStore, issued, bg, lastWrite, lateWrite>>

\* a GetYouTubeService that drops the credential it could not refresh
AcquireRefreshFailClears(h) ==
    /\ req[h].pc = "a_refresh"
    /\ SetToken(h, NIL, "lazy")
    /\ req' = [req EXCEPT ![h].pc = "idle", ![h].acq = "refresh_error", ![h].out = "error"]
    /\ UNCHANGED <<storeVars, http, proc, now, tickPending, cancelled, issued, bg, lateWrite>>

\* the refresh request fails: GetYouTubeService returns the error
AcquireRefreshFail(h) ==
    /\ req[h].pc = "a_refresh"
    /\ req' = [req EXCEPT ![h].pc = "idle", ![h].acq = "refresh_error", ![h].out = "error"]
    /\ UNCHANGED <<storeVars, http, proc, now, tickPending, cancelled, tokenStore, issued, bg, lastWrite, lateWrite>>

\* the refresh request succeeds: tokenSource.Token() returns the new token
AcquireRefreshOk(h) ==
    /\ req[h].pc = "a_refresh"
    /\ issued < MaxIssued
    /\ LET t == RefreshedToken(req[h].tok, issued + 1, now) IN
        /\ issued' = issued + 1
        /\ req' = [req EXCEPT ![h].pc = "a_store", ![h].new = t]
    /\ UNCHANGED <<storeVars, http, proc, now, tickPending, cancelled, tokenStore, bg, lastWrite, lateWrite>>

\* a refreshed token that is used but not stored
AcquireStoreSkipped(h) ==
    /\ req[h].pc = "a_store"
    /\ req' = [req EXCEPT ![h].pc = "api", ![h].acq = "ok"]
    /\ UNCHANGED <<storeVars, http, proc, now, tickPending, cancelled, tokenStore, issued, bg, lastWrite, lateWrite>>

\* if newToken.AccessToken != token.AccessToken { SetToken(newToken) };
\* youtube.NewService; the service is returned and the caller goes on to
\* call.Do()
AcquireStore(h) ==
    /\ req[h].pc = "a_store"
    /\ IF req[h].new.access # req[h].tok.access
       THEN /\ SetToken(h, req[h].new, "lazy")
            /\ req' = [req EXCEPT ![h].pc = "api", ![h].acq = "ok"]
       ELSE /\ req' = [req EXCEPT ![h].pc = "api", ![h].acq = "ok"]
            /\ UNCHANGED <<tokenStore, lastWrite>>
    /\ UNCHANGED <<storeVars, http, proc, now, tickPending, cancelled, issued, bg, lateWrite>>

\* call.Do() sends through the token source the client was built on, which
\* is asked for a token when the request goes out: a token still valid goes
\* out as it is and Do() waits for the response; one that has expired since
\* the acquisition is refreshed first, over the network; without a refresh
\* token Do() returns the error and no request is sent
DoSend(h) ==
    /\ req[h].pc = "api"
    /\ LET t == req[h].new
           step == TokenSourceStep(t, now)
       IN req' = [req EXCEPT ![h] =
                    IF step = "reuse"
                    THEN [@ EXCEPT !.pc = "d_wait", !.sent = t, !.api = @ + 1]
                    ELSE IF step = "fail"
                    THEN [@ EXCEPT !.pc = "idle", !.out = "error"]
                    ELSE [@ EXCEPT !.pc = "d_refresh", !.net = @ + 1]]
    /\ UNCHANGED <<storeVars, http, proc, now, tickPending, cancelled, tokenStore, issued, bg, lastWrite, lateWrite>>

\* the refresh request of Do() fails: Do() returns the error, no API request
\* is sent
DoRefreshFail(h) ==
    /\ req[h].pc = "d_refresh"
    /\ req' = [req EXCEPT ![h].pc = "idle", ![h].out = "error"]
    /\ UNCHANGED <<storeVars, http, proc, now, tickPending, cancelled, tokenStore, issued, bg, lastWrite, lateWrite>>

\* the refresh request of Do() succeeds: the new token stays in the token
\* source (the holder is not written) and the API request goes out with it
DoRefreshOk(h) ==
    /\ req[h].pc = "d_refresh"
    /\ issued < MaxIssued
    /\ issued' = issued + 1
    /\ req' = [req EXCEPT ![h].pc = "d_wait", ![h].api = @ + 1,
                          ![h].sent = RefreshedToken(req[h].new, issued + 1, now)]
    /\ UNCHANGED <<storeVars, http, proc, now, tickPending, cancelled, tokenStore, bg, lastWrite, lateWrite>>

\* a service method that sends the API request again after a first failure
ApiReturnRetry(h) ==
    /\ req[h].pc = "d_wait"
    /\ \E o \in {"ok", "error"} :
          IF o = "error" /\ req[h].api = 1
          THEN req' = [req EXCEPT ![h].api = @ + 1]
          ELSE req' = [req EXCEPT ![h].pc = "idle", ![h].out = o]
    /\ UNCHANGED <<storeVars, http, proc, now, tickPending, cancelled, tokenStore, issued, bg, lastWrite, lateWrite>>

\* a service method that drops the credential when the API request fails
ApiReturnClears(h) ==
    /\ req[h].pc = "d_wait"
    /\ \E o \in {"ok", "error"} :
          /\ req' = [req EXCEPT ![h].pc = "idle", ![h].out = o]
          /\ IF o = "error"
             THEN SetToken(h, NIL, "lazy")
             ELSE UNCHANGED <<tokenStore, lastWrite>>
    /\ UNCHANGED <<storeVars, http, proc, now, tickPending, cancelled, issued, bg, lateWrite>>

\* the API request is answered: call.Do() returns, with the response or with
\* an error
ApiReturn(h) ==
    /\ req[h].pc = "d_wait"
    /\ \E o \in {"ok", "error"} :
          req' = [req EXCEPT ![h].pc = "idle", ![h].out = o]
    /\ UNCHANGED <<storeVars, http, proc, now, tickPending, cancelled, tokenStore, issued, bg, lastWrite, lateWrite>>

\* ---- IsAuthenticated ----

IsAuthenticatedCall(h) ==
    /\ req[h].pc = "idle"
    /\ req' = [req EXCEPT ![h] = [IdleReq EXCEPT !.op = "isauth", !.lw = lastWrite.kind,
                                   !.past = (GetToken # NIL /\ GetToken.expiry < now),
                                   !.out = IF IsAuthenticated THEN "true" ELSE "false"]]
    /\ UNCHANGED <<storeVars, http, proc, now, tickPending, cancelled, tokenStore, issued, bg, lastWrite, lateWrite>>

\* ---- TokenRefresher ----

\* case <-ticker.C with a failed refresh that leaves the token in place
BgRefreshFailKeeps ==
    /\ bg.pc = "refresh"
    /\ bg' = [bg EXCEPT !.pc = "select"]
    /\ UNCHANGED <<storeVars, http, proc, now, tickPending, cancelled, tokenStore, issued, req, lastWrite, lateWrite>>

\* case <-ticker.C: read the token; nothing to do when it is nil or valid for
\* more than 30 minutes; otherwise tokenSource.Token(): a valid token is
\* returned as it is, an invalid one is refreshed over the network unless the
\* ctx is done or there is no refresh token: then Token() fails with no
\* request sent, and the refresher goes on to its SetToken(nil)
BgTick ==
    /\ bg.pc = "select"
    /\ tickPending
    /\ tickPending' = FALSE
    /\ LET t == GetToken
           step == TokenSourceStep(t, now)
       IN IF t = NIL \/ ~NeedsProactiveRefresh(t, now)
          THEN /\ bg' = IdleBg
               /\ UNCHANGED <<tokenStore, lastWrite, lateWrite, req>>
          ELSE IF step = "reuse"
          THEN /\ bg' = [pc |-> "store", tok |-> t, new |-> t, net |-> FALSE]
               /\ UNCHANGED <<tokenStore, lastWrite, lateWrite, req>>
          ELSE IF step = "fail" \/ cancelled
          THEN /\ bg' = [pc |-> "refresh", tok |-> t, new |-> NIL, net |-> FALSE]
               /\ UNCHANGED <<tokenStore, lastWrite, lateWrite, req>>
          ELSE /\ bg' = [pc |-> "refresh", tok |-> t, new |-> NIL, net |-> TRUE]
               /\ UNCHANGED <<tokenStore, lastWrite, lateWrite, req>>
    /\ UNCHANGED <<storeVars, http, proc, now, cancelled, issued>>

\* Token() returned an error, the refresh request having failed (also when
\* the ctx is cancelled under it) or not having been sent: SetToken(nil);
\* continue
BgRefreshFail ==
    /\ bg.pc = "refresh"
    /\ bg' = [bg EXCEPT !.pc = "select"]
    /\ SetToken("bg", NIL, "bg_clear")
    /\ lateWrite' = (lateWrite \/ cancelled)
    /\ req' = req
    /\ UNCHANGED <<storeVars, http, proc, now, tickPending, cancelled, issued>>

\* the refresh request, if one was sent, succeeds
BgRefreshOk ==
    /\ bg.pc = "refresh"
    /\ bg.net
    /\ issued < MaxIssued
    /\ LET t == RefreshedToken(bg.tok, issued + 1, now) IN
        /\ issued' = issued + 1
        /\ bg' = [bg EXCEPT !.pc = "store", !.new = t]
    /\ UNCHANGED <<storeVars, http, proc, now, tickPending, cancelled, tokenStore, req, lastWrite, lateWrite>>

\* SetToken(newToken)
BgStore ==
    /\ bg.pc = "store"
    /\ bg' = [bg EXCEPT !.pc = "select"]
    /\ SetToken("bg", bg.new, "bg_store")
    /\ lateWrite' = (lateWrite \/ cancelled)
    /\ req' = req
    /\ UNCHANGED <<storeVars, http, proc, now, tickPending, cancelled, issued>>

\* a select that never takes the ctx.Done() case
BgExitNever ==
    /\ FALSE
    /\ UNCHANGED vars

\* case <-ctx.Done(): return
BgExit ==
    /\ bg.pc = "select"
    /\ cancelled
    /\ bg' = [bg EXCEPT !.pc = "exited"]
    /\ UNCHANGED <<storeVars, http, proc, now, tickPending, cancelled, tokenStore, issued, req, lastWrite, lateWrite>>

\* ---- environment ----

\* fifteen minutes pass; the ticker fires (ticker.C holds at most one tick)
AdvanceClock ==
    /\ now < MaxTicks * TickerInterval
    /\ now' = now + TickerInterval
    /\ tickPending' = TRUE
    /\ UNCHANGED <<storeVars, http, proc, cancelled, tokenStore, issued, req, bg, lastWrite, lateWrite>>

\* the ctx handed to TokenRefresher is cancelled
Cancel ==
    /\ ~cancelled
    /\ cancelled' = TRUE
    /\ UNCHANGED <<storeVars, http, proc, now, tickPending, tokenStore, issued, req, bg, lastWrite, lateWrite>>

BgStep == BgTick \/ BgRefreshFail \/ BgRefreshOk \/ BgStore

\* one request goroutine's steps
HandlerStep(h) ==
    \/ ExchangeCall(h)
    \/ ExchangeFail(h)
    \/ ExchangeOk(h)
    \/ ExchangeStore(h)
    \/ Acquire(h)
    \/ AcquireRefreshFail(h)
    \/ AcquireRefreshOk(h)
    \/ AcquireStore(h)
    \/ DoSend(h)
    \/ DoRefreshFail(h)
    \/ DoRefreshOk(h)
    \/ ApiReturn(h)
    \/ IsAuthenticatedCall(h)

\* the server as main wires it: TokenRefresher(context.Background())
NextSys ==
    \/ \E h \in Handlers : HandlerStep(h)
    \/ BgTick
    \/ BgRefreshFail
    \/ BgRefreshOk
    \/ BgStore
    \/ AdvanceClock

\* TokenRefresher under a ctx that can be cancelled, beside one request
\* goroutine
NextCtx ==
    \/ HandlerStep("h1")
    \/ BgTick
    \/ BgRefreshFail
    \/ BgRefreshOk
    \/ BgStore
    \/ AdvanceClock
    \/ Cancel
    \/ BgExit

\* the request goroutines alone: the refresher never runs
NextLazy ==
    \/ \E h \in Handlers : HandlerStep(h)
    \/ AdvanceClock


(***************************************************************************)
(* Part 3.  The HTTP layer: the router, the RequireAuth gate on /mcp, the  *)
(* MCP dispatcher (HandleMCP, handleToolsCall, the three tool handlers)    *)
(* and the OAuth callback.  A request goroutine serves one HTTP request at *)
(* a time; the service calls it makes are the steps of Part 2.             *)
(***************************************************************************)

\* ---- JSON values of tool arguments ----

\* a JSON value: its type, its text when a string, and twice its value when
\* a number (so that halves are exact)
JAbsent == [t |-> "absent", s |-> "", n2 |-> 0]
JStr(x) == [t |-> "string", s |-> x, n2 |-> 0]
JNum(twice) == [t |-> "number", s |-> "", n2 |-> twice]

\* v, _ := x.(string)
AsString(j) == IF j.t = "string" THEN j.s ELSE ""

\* v, ok := x.(float64)
IsNumber(j) == j.t = "number"

\* int64(limit): the fraction is dropped
Int64(twice) == IF twice >= 0 THEN twice \div 2 ELSE -((-twice) \div 2)

\* the keys of params.Arguments the handlers and the tool catalogue name
ArgNames ==
    {"video_id", "query", "channel_id", "limit", "sort_by",
     "comment_id", "text", "playlist_id"}

\* arguments: {}
NoArgs == [a \in ArgNames |-> JAbsent]

\* ---- requests ----

\* values tried for a required string argument: missing, empty, a number, a string
RequiredValues == {JAbsent, JStr(""), JNum(14), JStr("id1")}

\* values tried for limit: missing, 0, 5, 0.5, -1, a string
LimitValues == {JAbsent, JNum(0), JNum(10), JNum(1), JNum(-2), JStr("5")}

\* values tried for sort_by: missing, empty, a string, a number
SortValues == {JAbsent, JStr(""), JStr("time"), JNum(2)}

\* values tried for channel_id
ChannelValues == {JAbsent, JStr("ch1")}

\* the tools of the documented catalogue
CataloguedTools ==
    {"get_video_metadata", "search_videos", "get_video_comments",
     "reply_to_comment", "add_video_to_playlist"}

\* an HTTP request: its route; for POST /mcp whether the body decodes into an
\* MCPRequest, its method, whether its params decode into ToolsCallParams,
\* the tool name and the arguments; for the callback its query parameters
HttpReq(route, body, method, params, name, args, code, err) ==
    [route |-> route, body |-> body, method |-> method, params |-> params,
     name |-> name, args |-> args, code |-> code, error |-> err]

McpReq(body, method, params, name, args) ==
    HttpReq("/mcp", body, method, params, name, args, "", "")

ToolsCall(name, args) == McpReq("json", "tools/call", "ok", name, args)

\* argument sets tried per tool: the required argument over its values, then,
\* with the required argument in place, each optional argument over its values
\* and one request with all of them supplied
ToolArguments(name) ==
    IF name = "get_video_metadata"
    THEN {[NoArgs EXCEPT !["video_id"] = v] : v \in RequiredValues}
    ELSE IF name = "search_videos"
    THEN {[NoArgs EXCEPT !["query"] = v] : v \in RequiredValues}
         \cup {[NoArgs EXCEPT !["query"] = JStr("q1"), !["limit"] = l] : l \in LimitValues}
         \cup {[NoArgs EXCEPT !["query"] = JStr("q1"), !["channel_id"] = c, !["limit"] = JNum(10)] :
                 c \in ChannelValues}
    ELSE IF name = "get_video_comments"
    THEN {[NoArgs EXCEPT !["video_id"] = v] : v \in RequiredValues}
         \cup {[NoArgs EXCEPT !["video_id"] = JStr("id1"), !["limit"] = l] : l \in LimitValues}
         \cup {[NoArgs EXCEPT !["video_id"] = JStr("id1"), !["sort_by"] = o] : o \in SortValues}
         \cup {[NoArgs EXCEPT !["video_id"] = JStr("id1"), !["sort_by"] = JStr("time"),
                              !["limit"] = JNum(10)]}
    ELSE IF name = "reply_to_comment"
    THEN {[NoArgs EXCEPT !["comment_id"] = JStr("c1"), !["text"] = JStr("thanks")]}
    ELSE IF name = "add_video_to_playlist"
    THEN {[NoArgs EXCEPT !["playlist_id"] = JStr("p1"), !["video_id"] = JStr("id1")]}
    ELSE {NoArgs}

\* POST /mcp requests tried
McpRequests ==
    {McpReq("malformed", "", "none", "", NoArgs)}
    \cup {McpReq("json", m, "none", "", NoArgs) : m \in {"initialize", "tools/list", "ping"}}
    \cup {McpReq("json", "tools/call", p, "", NoArgs) : p \in {"bad", "absent"}}
    \cup UNION {{ToolsCall(name, a) : a \in ToolArguments(name)} :
                  name \in CataloguedTools \cup {"no_such_tool"}}

\* the routes main and SetupOAuthRoutes register outside /mcp, the callback apart
OpenRoutes ==
    {"/health", "/", "/oauth/authorize",
     "/.well-known/oauth-protected-resource",
     "/.well-known/oauth-authorization-server"}

OtherRequests ==
    {HttpReq(r, "", "", "none", "", NoArgs, "", "") : r \in OpenRoutes}
    \cup {HttpReq("/oauth/callback", "", "", "none", "", NoArgs, c, e) :
            c \in {"", "code1"}, e \in {"", "access_denied"}}

Requests == McpRequests \cup OtherRequests

\* ---- responses ----

\* MCPResponse.Result when nil (left out of the body)
NoResult == [isError |-> FALSE, ctype |-> "absent", text |-> ""]

\* an HTTP response: status, the kind of body, and for a JSON-RPC body its
\* result (NoResult when left out) and its error code (0 when left out)
HttpResp(status, body, result, code) ==
    [status |-> status, body |-> body, result |-> result, error |-> code]

NoResp == HttpResp(0, "none", NoResult, 0)

\* sendSuccessResponse: the status stays 200
sendSuccessResponse(result) == HttpResp(200, "jsonrpc", result, 0)

\* sendErrorResponse: the status stays 200
sendErrorResponse(code) == HttpResp(200, "jsonrpc", NoResult, code)

\* sendToolError
sendToolError(message) ==
    sendSuccessResponse([isError |-> TRUE, ctype |-> "text", text |-> message])

\* sendToolResult
sendToolResult == sendSuccessResponse([isError |-> FALSE, ctype |-> "json", text |-> ""])

\* sendUnauthorized
sendUnauthorized == HttpResp(401, "unauthorized", NoResult, 0)

\* ---- the service call a tool handler makes ----

NoCall == [fn |-> "none", s1 |-> "", s2 |-> "", limit |-> 0]

ServiceCall(fn, s1, s2, limit) == [fn |-> fn, s1 |-> s1, s2 |-> s2, limit |-> limit]

\* fmt.Sprintf("API Error: %v", err) for the error the service call returned:
\* GetYouTubeService's error wrapped, or call.Do()'s error wrapped
ApiErrorText(fn, acq) ==
    IF acq = "not_authenticated"
    THEN "API Error: failed to get YouTube service: not authenticated with Google; please visit /oauth/authorize"
    ELSE IF acq = "refresh_error"
    THEN "API Error: failed to get YouTube service: failed to retrieve or refresh token: <error>"
    ELSE IF fn = "GetVideoMetadata" THEN "API Error: failed to get video metadata: <error>"
    ELSE IF fn = "SearchVideos" THEN "API Error: failed to search videos: <error>"
    ELSE "API Error: failed to get video comments: <error>"

\* a request goroutine serving no request
IdleHttp ==
    [pc |-> "none", rq |-> HttpReq("", "", "", "none", "", NoArgs, "", ""),
     gate |-> "none", dispatched |-> FALSE, call |-> NoCall, resp |-> NoResp,
     gone |-> FALSE]

InitHttp == http = [h \in Handlers |-> IdleHttp]

\* ---- the tool handlers: the answer they give at once, or the call they make ----

Answer(r) == [resp |-> r, call |-> NoCall]

Invoke(c) == [resp |-> NoResp, call |-> c]

\* videoID, _ := args["video_id"].(string); "" is rejected
handleGetVideoMetadata(args) ==
    LET videoID == AsString(args["video_id"]) IN
    IF videoID = ""
    THEN Answer(sendToolError("video_id is required"))
    ELSE Invoke(ServiceCall("GetVideoMetadata", videoID, "", 0))

\* a handleSearchVideos that calls the service whatever the query
handleSearchVideosNoCheck(args) ==
    Invoke(ServiceCall("SearchVideos", AsString(args["query"]), AsString(args["channel_id"]), 10))

\* a handleSearchVideos that passes a limit of 0 on
handleSearchVideosZeroLimit(args) ==
    IF AsString(args["query"]) = ""
    THEN Answer(sendToolError("query is required"))
    ELSE Invoke(ServiceCall("SearchVideos", AsString(args["query"]),
                            AsString(args["channel_id"]),
                            IF IsNumber(args["limit"])
                            THEN Int64(args["limit"].n2) ELSE 10))

\* query required; channel_id optional; limit defaults to 10 when it is no
\* number or 0
handleSearchVideos(args) ==
    LET query == AsString(args["query"])
        channelID == AsString(args["channel_id"])
        limit == IF ~IsNumber(args["limit"]) \/ args["limit"].n2 = 0
                 THEN 2 * 10
                 ELSE args["limit"].n2
    IN IF query = ""
       THEN Answer(sendToolError("query is required"))
       ELSE Invoke(ServiceCall("SearchVideos", query, channelID, Int64(limit)))

\* a handleGetVideoComments that passes the arguments on with no defaults
handleGetVideoCommentsNoDefaults(args) ==
    IF AsString(args["video_id"]) = ""
    THEN Answer(sendToolError("video_id is required"))
    ELSE Invoke(ServiceCall("GetVideoComments", AsString(args["video_id"]),
                            AsString(args["sort_by"]), Int64(args["limit"].n2)))

\* video_id required; sort_by defaults to "top" when it is no string or empty;
\* limit defaults to 20 when it is no number or 0
handleGetVideoComments(args) ==
    LET videoID == AsString(args["video_id"])
        sortBy == IF AsString(args["sort_by"]) = "" THEN "top" ELSE AsString(args["sort_by"])
        limit == IF ~IsNumber(args["limit"]) \/ args["limit"].n2 = 0
                 THEN 2 * 20
                 ELSE args["limit"].n2
    IN IF videoID = ""
       THEN Answer(sendToolError("video_id is required"))
       ELSE Invoke(ServiceCall("GetVideoComments", videoID, sortBy, Int64(limit)))

\* a handleToolsCall that goes on after decodeParams has failed
handleToolsCallNoDecodeCheck(rq) ==
    IF rq.name = "get_video_metadata" THEN handleGetVideoMetadata(rq.args)
    ELSE IF rq.name = "search_videos" THEN handleSearchVideos(rq.args)
    ELSE IF rq.name = "get_video_comments" THEN handleGetVideoComments(rq.args)
    ELSE Answer(sendErrorResponse(-32601))

\* decodeParams, then the switch on toolParams.Name
handleToolsCall(rq) ==
    IF rq.params = "bad" THEN Answer(sendErrorResponse(-32602))
    ELSE IF rq.name = "get_video_metadata" THEN handleGetVideoMetadata(rq.args)
    ELSE IF rq.name = "search_videos" THEN handleSearchVideos(rq.args)
    ELSE IF rq.name = "get_video_comments" THEN handleGetVideoComments(rq.args)
    ELSE Answer(sendErrorResponse(-32601))

\* a HandleMCP that goes on after the body has failed to decode
HandleMCPNoDecodeCheck(rq) ==
    IF rq.method = "initialize"
    THEN Answer(sendSuccessResponse([isError |-> FALSE, ctype |-> "initialize", text |-> ""]))
    ELSE IF rq.method = "tools/list"
    THEN Answer(sendSuccessResponse([isError |-> FALSE, ctype |-> "tools", text |-> ""]))
    ELSE IF rq.method = "tools/call" THEN handleToolsCall(rq)
    ELSE Answer(sendErrorResponse(-32601))

\* json Decode of the body, then the switch on req.Method
HandleMCP(rq) ==
    IF rq.body # "json" THEN Answer(sendErrorResponse(-32700))
    ELSE IF rq.method = "initialize"
    THEN Answer(sendSuccessResponse([isError |-> FALSE, ctype |-> "initialize", text |-> ""]))
    ELSE IF rq.method = "tools/list"
    THEN Answer(sendSuccessResponse([isError |-> FALSE, ctype |-> "tools", text |-> ""]))
    ELSE IF rq.method = "tools/call" THEN handleToolsCall(rq)
    ELSE Answer(sendErrorResponse(-32601))

\* ---- the steps of a request goroutine ----

\* a request arrives and the router picks its handler: /mcp goes through the
\* RequireAuth middleware, the other routes do not
HttpArrive(h) ==
    /\ http[h].pc \in {"none", "done"}
    /\ req[h].pc = "idle"
    /\ \E rq \in Requests :
          http' = [http EXCEPT ![h] =
                     [IdleHttp EXCEPT !.rq = rq,
                                      !.pc = IF rq.route = "/mcp" THEN "gate"
                                             ELSE IF rq.route = "/oauth/callback" THEN "callback"
                                             ELSE "open"]]
    /\ req' = [req EXCEPT ![h] = IdleReq]
    /\ UNCHANGED <<storeVars, proc, now, tickPending, cancelled, tokenStore, issued, bg, lastWrite, lateWrite>>

\* /health, /, /oauth/authorize and the discovery endpoints answer at once
HttpOpen(h) ==
    /\ http[h].pc = "open"
    /\ http' = [http EXCEPT ![h].pc = "done", ![h].resp = HttpResp(200, "page", NoResult, 0)]
    /\ UNCHANGED <<storeVars, sysVars, proc>>

\* a gate that lets every request through
RequireAuthOpen(h) ==
    /\ http[h].pc = "gate"
    /\ http' = [http EXCEPT ![h].pc = "mcp", ![h].gate = IF IsAuthenticated THEN "pass" ELSE "deny"]
    /\ UNCHANGED <<storeVars, sysVars, proc>>

\* if !IsAuthenticated() { sendUnauthorized; return }; next.ServeHTTP
RequireAuth(h) ==
    /\ http[h].pc = "gate"
    /\ IF IsAuthenticated
       THEN http' = [http EXCEPT ![h].pc = "mcp", ![h].gate = "pass"]
       ELSE http' = [http EXCEPT ![h].pc = "done", ![h].gate = "deny",
                                 ![h].resp = sendUnauthorized]
    /\ UNCHANGED <<storeVars, sysVars, proc>>

\* HandleMCP runs up to its answer or up to the service call of a tool handler
McpDispatch(h) ==
    /\ http[h].pc = "mcp"
    /\ LET o == HandleMCP(http[h].rq) IN
          http' = [http EXCEPT ![h].dispatched = TRUE,
                               ![h].resp = o.resp,
                               ![h].call = o.call,
                               ![h].pc = IF o.call = NoCall THEN "done" ELSE "service"]
    /\ UNCHANGED <<storeVars, sysVars, proc>>

\* the service method starts: GetYouTubeService
HttpServe(h) ==
    /\ http[h].pc = "service"
    /\ req[h].op = "none"
    /\ Acquire(h)

\* a tool handler that reports a failed service call as a protocol error
HttpToolRespondProtocolError(h) ==
    /\ http[h].pc = "service"
    /\ req[h].op = "tool"
    /\ req[h].pc = "idle"
    /\ http' = [http EXCEPT ![h].pc = "done",
                            ![h].resp = IF req[h].out = "ok"
                                        THEN sendToolResult
                                        ELSE sendErrorResponse(-32603)]
    /\ UNCHANGED <<storeVars, sysVars, proc>>

\* a tool handler that lets a failed token refresh through as a server fault
HttpToolRespondServerFault(h) ==
    /\ http[h].pc = "service"
    /\ req[h].op = "tool"
    /\ req[h].pc = "idle"
    /\ http' = [http EXCEPT ![h].pc = "done",
                            ![h].resp = IF req[h].out = "ok"
                                        THEN sendToolResult
                                        ELSE IF req[h].acq = "refresh_error"
                                        THEN HttpResp(500, "text", NoResult, 0)
                                        ELSE sendToolError(ApiErrorText(http[h].call.fn, req[h].acq))]
    /\ UNCHANGED <<storeVars, sysVars, proc>>

\* the service method has returned: sendToolError("API Error: ...") or sendToolResult
HttpToolRespond(h) ==
    /\ http[h].pc = "service"
    /\ req[h].op = "tool"
    /\ req[h].pc = "idle"
    /\ http' = [http EXCEPT ![h].pc = "done",
                            ![h].resp = IF req[h].out = "ok"
                                        THEN sendToolResult
                                        ELSE sendToolError(ApiErrorText(http[h].call.fn, req[h].acq))]
    /\ UNCHANGED <<storeVars, sysVars, proc>>

\* a GoogleCallback that goes by the code when there is one, whatever the
\* error parameter
GoogleCallbackCodeFirst(h) ==
    /\ http[h].pc = "callback"
    /\ IF http[h].rq.code = ""
       THEN http' = [http EXCEPT ![h].pc = "done", ![h].resp = HttpResp(400, "text", NoResult, 0)]
       ELSE http' = [http EXCEPT ![h].pc = "exchange"]
    /\ UNCHANGED <<storeVars, sysVars, proc>>

\* GoogleCallback: an error parameter or a missing code is a 400
GoogleCallback(h) ==
    /\ http[h].pc = "callback"
    /\ IF http[h].rq.error # "" \/ http[h].rq.code = ""
       THEN http' = [http EXCEPT ![h].pc = "done", ![h].resp = HttpResp(400, "text", NoResult, 0)]
       ELSE http' = [http EXCEPT ![h].pc = "exchange"]
    /\ UNCHANGED <<storeVars, sysVars, proc>>

\* GoogleCallback: ExchangeCodeForToken starts
HttpExchange(h) ==
    /\ http[h].pc = "exchange"
    /\ req[h].op = "none"
    /\ ExchangeCall(h)

\* the browser drops the connection of its GET /oauth/callback (or the
\* router's 60 s Timeout passes) while the code exchange is in flight:
\* r.Context() is cancelled
HttpDisconnect(h) ==
    /\ http[h].pc = "exchange"
    /\ req[h].pc \in {"x_exchange", "x_store"}
    /\ ~http[h].gone
    /\ http' = [http EXCEPT ![h].gone = TRUE]
    /\ UNCHANGED <<storeVars, sysVars, proc>>

\* an exchange that is given up although its request ctx is live
ExchangeCancelledAnytime(h) ==
    /\ req[h].pc = "x_exchange"
    /\ req' = [req EXCEPT ![h].pc = "idle", ![h].out = "exchange_error",
                          ![h].acq = "cancelled"]
    /\ UNCHANGED <<storeVars, http, proc, now, tickPending, cancelled, tokenStore, issued, bg, lastWrite, lateWrite>>

\* oauthConfig.Exchange(ctx, code) under r.Context(): with the ctx cancelled
\* the token request is given up and ExchangeCodeForToken returns the error
ExchangeCancelled(h) ==
    /\ req[h].pc = "x_exchange"
    /\ http[h].gone
    /\ req' = [req EXCEPT ![h].pc = "idle", ![h].out = "exchange_error",
                          ![h].acq = "cancelled"]
    /\ UNCHANGED <<storeVars, http, proc, now, tickPending, cancelled, tokenStore, issued, bg, lastWrite, lateWrite>>

\* GoogleCallback: 500 when the exchange failed, the success page otherwise
HttpCallbackRespond(h) ==
    /\ http[h].pc = "exchange"
    /\ req[h].op = "exchange"
    /\ req[h].pc = "idle"
    /\ http' = [http EXCEPT ![h].pc = "done",
                            ![h].resp = IF req[h].out = "ok"
                                        THEN HttpResp(200, "page", NoResult, 0)
                                        ELSE HttpResp(500, "text", NoResult, 0)]
    /\ UNCHANGED <<storeVars, sysVars, proc>>

\* the goroutine the HTTP layer is followed on
HttpWorkers == {"h1"}

\* the server: one request goroutine serving any route, and the refresher
NextHttp ==
    \/ \E h \in HttpWorkers :
          \/ HttpArrive(h)
          \/ HttpOpen(h)
          \/ RequireAuth(h)
          \/ McpDispatch(h)
          \/ HttpServe(h)
          \/ AcquireRefreshFail(h)
          \/ AcquireRefreshOk(h)
          \/ AcquireStore(h)
          \/ DoSend(h)
          \/ DoRefreshFail(h)
          \/ DoRefreshOk(h)
          \/ ApiReturn(h)
          \/ HttpToolRespond(h)
          \/ GoogleCallback(h)
          \/ HttpExchange(h)
          \/ ExchangeFail(h)
          \/ ExchangeOk(h)
          \/ ExchangeStore(h)
          \/ HttpDisconnect(h)
          \/ ExchangeCancelled(h)
          \/ HttpCallbackRespond(h)
    \/ BgTick
    \/ BgRefreshFail
    \/ BgRefreshOk
    \/ BgStore
    \/ AdvanceClock

(***************************************************************************)
(* Part 4.  The process: config.Load, main's wiring, the goroutines it     *)
(* starts, the listener, and the shutdown on SIGINT / SIGTERM.             *)
(***************************************************************************)

\* a variable that is not in the environment
Unset == "<unset>"

\* the variables Load reads
EnvKeys ==
    {"GOOGLE_CLIENT_ID", "GOOGLE_CLIENT_SECRET", "GOOGLE_REDIRECT_URI",
     "MCP_SERVER_URL", "PORT", "ENVIRONMENT"}

\* environments tried (after godotenv.Load): each credential and the port
\* unset, empty or set; the other variables unset
Envs ==
    {[k \in EnvKeys |->
        IF k = "GOOGLE_CLIENT_ID" THEN id
        ELSE IF k = "GOOGLE_CLIENT_SECRET" THEN secret
        ELSE IF k = "PORT" THEN port
        ELSE Unset] :
        id \in {Unset, "", "client-id"},
        secret \in {Unset, "", "client-secret"},
        port \in {Unset, "", "9090"}}

\* os.Getenv: "" for a variable that is not set
Getenv(env, key) == IF env[key] = Unset THEN "" ELSE env[key]

\* getEnv: the default for an unset or empty variable
getEnv(env, key, defaultValue) ==
    IF Getenv(env, key) # "" THEN Getenv(env, key) ELSE defaultValue

\* the Config literal of Load
LoadConfig(env) ==
    [GoogleClientID |-> getEnv(env, "GOOGLE_CLIENT_ID", ""),
     GoogleClientSecret |-> getEnv(env, "GOOGLE_CLIENT_SECRET", ""),
     GoogleRedirectURI |-> getEnv(env, "GOOGLE_REDIRECT_URI", "http://localhost:8080/oauth/callback"),
     MCPServerURL |-> getEnv(env, "MCP_SERVER_URL", "http://localhost:8080"),
     Port |-> getEnv(env, "PORT", "8080"),
     Environment |-> getEnv(env, "ENVIRONMENT", "development")]

\* a Load that validates the client id only
LoadNoSecretCheck(env) ==
    [fatal |-> LoadConfig(env).GoogleClientID = "", config |-> LoadConfig(env)]

\* Load: log.Fatal when a credential is empty, the Config otherwise
Load(env) ==
    [fatal |-> \/ LoadConfig(env).GoogleClientID = ""
               \/ LoadConfig(env).GoogleClientSecret = "",
     config |-> LoadConfig(env)]

\* no Config yet
NoConfig == [k \in DOMAIN LoadConfig([e \in EnvKeys |-> Unset]) |-> ""]

\* the environment of the server the other specifications follow
ServingEnv ==
    [k \in EnvKeys |->
        IF k = "GOOGLE_CLIENT_ID" THEN "client-id"
        ELSE IF k = "GOOGLE_CLIENT_SECRET" THEN "client-secret"
        ELSE Unset]

\* main is in ListenAndServe: the refresher runs, the shutdown goroutine waits
\* for a signal, no request is being served
ServingProc ==
    [pc |-> "serving", env |-> ServingEnv, cfg |-> LoadConfig(ServingEnv),
     refresher |-> TRUE, sd |-> "waiting", conn |-> "none"]

InitProc == proc = ServingProc

\* the process at the first line of main, in any of the environments
InitMainProc ==
    proc \in {[pc |-> "load", env |-> e, cfg |-> NoConfig,
               refresher |-> FALSE, sd |-> "none", conn |-> "none"] : e \in Envs}

\* the process has not ended (log.Fatal, a signal nobody had asked for, or
\* main returned)
Alive == proc.pc \notin {"fatal_config", "fatal_listen", "killed", "exited"}

\* main is in ListenAndServe or past it, and the process has not ended: the
\* request goroutines run
Running == proc.pc \in {"serving", "complete"}

\* the listener accepts connections: bound by ListenAndServe, not yet closed
\* by Shutdown
Listening == proc.pc = "serving" /\ proc.sd \notin {"shutdown", "done"}

\* cfg := config.Load(); the token store and the services are constructed
MainLoad ==
    /\ proc.pc = "load"
    /\ proc' = IF Load(proc.env).fatal
               THEN [proc EXCEPT !.pc = "fatal_config"]
               ELSE [proc EXCEPT !.pc = "refresher", !.cfg = Load(proc.env).config]
    /\ UNCHANGED <<storeVars, sysVars, http>>

\* go googleService.TokenRefresher(context.Background()); handlers and router
MainStartRefresher ==
    /\ proc.pc = "refresher"
    /\ proc' = [proc EXCEPT !.pc = "go_shutdown", !.refresher = TRUE]
    /\ UNCHANGED <<storeVars, sysVars, http>>

\* go func() { ... }(): the shutdown goroutine is started and main goes on
\* without waiting for it
MainGoShutdown ==
    /\ proc.pc = "go_shutdown"
    /\ proc' = [proc EXCEPT !.pc = "listen", !.sd = "started"]
    /\ UNCHANGED <<storeVars, sysVars, http>>

\* the shutdown goroutine: signal.Notify(sigint, os.Interrupt, SIGTERM); <-sigint
MainNotify ==
    /\ Alive
    /\ proc.sd = "started"
    /\ proc' = [proc EXCEPT !.sd = "waiting"]
    /\ UNCHANGED <<storeVars, sysVars, http>>

\* server.ListenAndServe(): the listener is bound; after Shutdown it returns
\* http.ErrServerClosed at once
MainListen ==
    /\ proc.pc = "listen"
    /\ proc' = [proc EXCEPT !.pc = IF proc.sd \in {"shutdown", "done"}
                                   THEN "complete" ELSE "serving"]
    /\ UNCHANGED <<storeVars, sysVars, http>>

\* server.ListenAndServe() fails to bind: log.Fatalf
MainListenFail ==
    /\ proc.pc = "listen"
    /\ proc.sd \notin {"shutdown", "done"}
    /\ proc' = [proc EXCEPT !.pc = "fatal_listen"]
    /\ UNCHANGED <<storeVars, sysVars, http>>

\* the listener accepts a request and a request goroutine starts on it:
\* POST /mcp or GET /oauth/callback
MainAccept(h) ==
    /\ Listening
    /\ proc.conn = "none"
    /\ \E route \in {"mcp", "callback"} : proc' = [proc EXCEPT !.conn = route]
    /\ req' = [req EXCEPT ![h] = IdleReq]
    /\ UNCHANGED <<storeVars, http, now, tickPending, cancelled, tokenStore, issued, bg, lastWrite, lateWrite>>

\* the request goroutine's step.  POST /mcp: IsAuthenticated in RequireAuth,
\* then, the gate passed, a tool's GetYouTubeService and API request;
\* GET /oauth/callback: ExchangeCodeForToken.  Shutdown closes the listener
\* and leaves the request being served alone: it goes on, its later calls
\* included, until the process ends.
MainServe(h) ==
    /\ Running
    /\ \/ /\ proc.conn = "mcp"
          /\ req[h].op = "none"
          /\ IsAuthenticatedCall(h)
       \/ /\ proc.conn = "mcp"
          /\ req[h].op = "isauth" /\ req[h].out = "true"
          /\ Acquire(h)
       \/ /\ proc.conn = "mcp"
          /\ \/ AcquireRefreshFail(h)
             \/ AcquireRefreshOk(h)
             \/ AcquireStore(h)
             \/ DoSend(h)
             \/ DoRefreshFail(h)
             \/ DoRefreshOk(h)
             \/ ApiReturn(h)
       \/ /\ proc.conn = "callback"
          /\ req[h].op = "none"
          /\ ExchangeCall(h)
       \/ /\ proc.conn = "callback"
          /\ \/ ExchangeFail(h)
             \/ ExchangeOk(h)
             \/ ExchangeStore(h)

\* the handler returns and the response is written: at any point between the
\* calls of the request (a POST /mcp has been through the gate)
MainRespond(h) ==
    /\ Running
    /\ proc.conn # "none"
    /\ req[h].pc = "idle"
    /\ proc.conn = "mcp" => req[h].op # "none"
    /\ proc' = [proc EXCEPT !.conn = "none"]
    /\ UNCHANGED <<storeVars, sysVars, http>>

\* the refresher goroutine's step, once started and until the process ends
MainRefresherStep ==
    /\ proc.refresher
    /\ Alive
    /\ BgStep

\* fifteen minutes pass in the running process
MainClock ==
    /\ proc.refresher
    /\ Alive
    /\ AdvanceClock

\* SIGINT or SIGTERM arrives before signal.Notify has run: the signal has its
\* default action and the process ends there, with no Shutdown
MainSignalKill ==
    /\ Alive
    /\ proc.sd \in {"none", "started"}
    /\ proc' = [proc EXCEPT !.pc = "killed"]
    /\ UNCHANGED <<storeVars, sysVars, http>>

\* SIGINT or SIGTERM arrives after signal.Notify: <-sigint returns
MainSignal ==
    /\ Alive
    /\ proc.sd = "waiting"
    /\ proc' = [proc EXCEPT !.sd = "signalled"]
    /\ UNCHANGED <<storeVars, sysVars, http>>

\* server.Shutdown(ctx) is called: the listener is closed
MainShutdown ==
    /\ Alive
    /\ proc.sd = "signalled"
    /\ proc' = [proc EXCEPT !.sd = "shutdown"]
    /\ UNCHANGED <<storeVars, sysVars, http>>

\* server.Shutdown(ctx) returns: the connections are idle, or 30 s have passed
MainShutdownDone ==
    /\ Alive
    /\ proc.sd = "shutdown"
    /\ proc' = [proc EXCEPT !.sd = "done"]
    /\ UNCHANGED <<storeVars, sysVars, http>>

\* ListenAndServe returns http.ErrServerClosed: "Server shutdown complete"
MainServeReturn ==
    /\ proc.pc = "serving"
    /\ proc.sd \in {"shutdown", "done"}
    /\ proc' = [proc EXCEPT !.pc = "complete"]
    /\ UNCHANGED <<storeVars, sysVars, http>>

\* main returns: the process and every goroutine in it end
MainExit ==
    /\ proc.pc = "complete"
    /\ proc' = [proc EXCEPT !.pc = "exited"]
    /\ UNCHANGED <<storeVars, sysVars, http>>

\* the process from the first line of main, with one request goroutine
NextMain ==
    \/ MainLoad
    \/ MainStartRefresher
    \/ MainGoShutdown
    \/ MainNotify
    \/ MainListen
    \/ MainListenFail
    \/ MainAccept("h1")
    \/ MainServe("h1")
    \/ MainRespond("h1")
    \/ MainRefresherStep
    \/ MainClock
    \/ MainSignalKill
    \/ MainSignal
    \/ MainShutdown
    \/ MainShutdownDone
    \/ MainServeReturn
    \/ MainExit


\* ---- the server once the provider has withdrawn the grant ----

\* the provider's answer to the code of the first authorization: it issues
\* no token after that one
FirstExchangeOk(h) ==
    /\ issued = 0
    /\ ExchangeOk(h)

\* the refresher's steps when no refresh succeeds
BgStepRevoked == BgTick \/ BgRefreshFail \/ BgStore

\* clock moves followed in the revoked server
MaxTicksRevoked == 6

\* the tokens some goroutine or the holder has
TokensHeld ==
    {tokenStore, bg.tok, bg.new}
        \cup {req[h].tok : h \in Handlers}
        \cup {req[h].new : h \in Handlers}
        \cup {req[h].sent : h \in Handlers}

\* every token of the state is past its expiry: Valid, the 30 minute test
\* and every other comparison with the clock give the same answer at each
\* later instant
AllExpired == \A t \in TokensHeld : t # NIL => (t.expiry # 0 /\ t.expiry < now)

\* fifteen minutes pass and the ticker fires, for as long as the process
\* runs.  The clock's reading is followed for MaxTicksRevoked periods; after
\* that the ticker still fires, the reading being kept where it is once no
\* comparison depends on it any more
AdvanceClockRevoked ==
    /\ IF now < MaxTicksRevoked * TickerInterval
       THEN now' = now + TickerInterval
       ELSE AllExpired /\ now' = now
    /\ tickPending' = TRUE
    /\ UNCHANGED <<storeVars, http, proc, cancelled, tokenStore, issued, req, bg, lastWrite, lateWrite>>

\* the server of NextHttp with a provider that, after the first
\* authorization, rejects every refresh and every code
NextRevoked ==
    \/ \E h \in HttpWorkers :
          \/ HttpArrive(h)
          \/ HttpOpen(h)
          \/ RequireAuth(h)
          \/ McpDispatch(h)
          \/ HttpServe(h)
          \/ AcquireRefreshFail(h)
          \/ DoSend(h)
          \/ DoRefreshFail(h)
          \/ ApiReturn(h)
          \/ HttpToolRespond(h)
          \/ GoogleCallback(h)
          \/ HttpExchange(h)
          \/ ExchangeFail(h)
          \/ FirstExchangeOk(h)
          \/ ExchangeStore(h)
          \/ HttpCallbackRespond(h)
    \/ BgTick
    \/ BgRefreshFail
    \/ BgStore
    \/ AdvanceClockRevoked

Init == InitStore /\ InitSys /\ InitHttp /\ InitProc

InitMain == InitStore /\ InitSys /\ InitHttp /\ InitMainProc

SpecStore == Init /\ [][NextStore]_vars

SpecStoreMutate == Init /\ [][NextStoreMutate]_vars

Spec == Init /\ [][NextSys]_vars

\* goroutines keep running, and a select with ctx.Done() ready takes that case
\* sooner or later
SpecCtx ==
    /\ Init
    /\ [][NextCtx]_vars
    /\ WF_vars(BgStep)
    /\ SF_vars(BgExit)

SpecHttp == Init /\ [][NextHttp]_vars

SpecMain == InitMain /\ [][NextMain]_vars

SpecLazy == Init /\ [][NextLazy]_vars

\* the ticker goes on firing while the clock runs, and the refresher
\* goroutine keeps running
SpecRevoked ==
    /\ Init
    /\ [][NextRevoked]_vars
    /\ WF_vars(AdvanceClockRevoked)
    /\ WF_vars(BgStepRevoked)

\* ---- claims about the token holder ----

\* C1 (as claimed): a GetToken returns the value handed to the last SetToken
\* (nil when none has written), also after a caller has written through the
\* pointer an earlier GetToken returned: while the reader still holds the read
\* lock, the token it was given equals the last value set.
C1_RoundTrip ==
    \A c \in Callers :
        cpc[c] = "g_runlock" => Deref(heap, cptr[c]) = lastSet

\* C2: the holder is linearizable under its reader-writer lock: no reader holds
\* the lock while a writer does, there is at most one writer, every GetToken
\* returns nil or one whole credential that was handed to a SetToken (the
\* latest write, never a mix), and a GetToken that began after a SetToken
\* returned reads that write or a later one.
C2_Linearizable ==
    /\ (mu_writers # {} => mu_readers = {})
    /\ Cardinality(mu_writers) <= 1
    /\ \A c \in Callers :
          cpc[c] = "g_runlock" =>
              /\ Deref(heap, cptr[c]) \in CredValues \cup {NIL}
              /\ cobs[c] = wseq
              /\ cobs[c] >= cstart[c]

\* C2 witness: two readers hold the lock together while a writer waits, and one
\* of them, begun after a SetToken had returned, has read a stored credential.
C2_Witness ==
    /\ Cardinality(mu_readers) >= 2
    /\ mu_w # {}
    /\ \E c \in Callers :
          /\ cpc[c] = "g_runlock"
          /\ cstart[c] >= 1
          /\ Deref(heap, cptr[c]) \in CredValues

\* ---- claims about the session manager ----

\* goroutine h takes a step of its own call
Moves(h) == req'[h] # req[h]

\* C3: GetYouTubeService called while the holder is absent returns the
\* not-authenticated error at once: no refresh request, no API request, and
\* the holder is still absent.
C3_NotAuthenticated ==
    [][\A h \in Handlers :
          (req[h].pc = "idle" /\ Moves(h) /\ req'[h].op = "tool" /\ tokenStore = NIL) =>
              /\ req'[h].pc = "idle"
              /\ req'[h].acq = "not_authenticated"
              /\ req'[h].net = 0
              /\ req'[h].api = 0
              /\ tokenStore' = NIL]_vars

\* C3 witness: a call made with no credential held has returned
\* not-authenticated and the holder is absent.
C3_Witness ==
    \E h \in Handlers :
        /\ req[h].op = "tool"
        /\ req[h].pc = "idle"
        /\ req[h].tok = NIL
        /\ req[h].acq = "not_authenticated"
        /\ req[h].net = 0
        /\ req[h].api = 0
        /\ tokenStore = NIL

\* C4 (as claimed): once ExchangeCodeForToken has returned success, and while
\* the token it obtained is still fresh, IsAuthenticated() is true and the next
\* GetYouTubeService succeeds without a refresh request, whatever the
\* refresher and the other requests do.
C4_FreshAfterExchange ==
    \A h \in Handlers :
        (req[h].op = "exchange" /\ req[h].out = "ok" /\ Valid(req[h].new, now)) =>
            /\ IsAuthenticated
            /\ TokenSourceStep(GetToken, now) = "reuse"

\* C5: a failing ExchangeCodeForToken returns the error and writes nothing:
\* the holder keeps the value it had.
C5_FailedExchangeWritesNothing ==
    [][\A h \in Handlers :
          (req[h].pc = "x_exchange" /\ req'[h].out = "exchange_error") =>
              /\ req'[h].pc = "idle"
              /\ tokenStore' = tokenStore
              /\ lastWrite' = lastWrite]_vars

\* C5 witness: an exchange has failed while a credential stored earlier is
\* still held.
C5_Witness ==
    \E h \in Handlers :
        /\ req[h].op = "exchange"
        /\ req[h].pc = "idle"
        /\ req[h].out = "exchange_error"
        /\ tokenStore # NIL

\* C6: a GetYouTubeService call that read a credential whose expiry is in the
\* past makes exactly one refresh request, and when that request succeeds the
\* call stores the refreshed credential in the holder.  The count is that of
\* GetYouTubeService: from its refresh request until call.Do() asks the token
\* source again, and after it has returned the refresh error.
C6_OneRefreshThenStore ==
    /\ [](\A h \in Handlers :
            (/\ req[h].op = "tool" /\ req[h].past
             /\ (req[h].pc \in {"a_refresh", "a_store", "api"} \/ req[h].acq = "refresh_error")) =>
                /\ req[h].net = 1
                /\ req[h].pc = "a_store" => req[h].new.access # req[h].tok.access)
    /\ [][\A h \in Handlers :
            (req[h].pc = "a_store" /\ req[h].past /\ Moves(h)) =>
                /\ req'[h].acq = "ok"
                /\ tokenStore' = req[h].new]_vars

\* C6 witness: a call that read an expired credential has refreshed it once
\* and the holder holds the refreshed credential.
C6_Witness ==
    \E h \in Handlers :
        /\ req[h].op = "tool"
        /\ req[h].past
        /\ req[h].acq = "ok"
        /\ req[h].net = 1
        /\ req[h].new # req[h].tok
        /\ tokenStore = req[h].new

\* two calls that both read the same expired credential, both refreshed it and
\* have both finished acquisition, with nobody else writing after them
BothRefreshed(g, h) ==
    /\ g # h
    /\ req[g].op = "tool" /\ req[h].op = "tool"
    /\ req[g].past /\ req[h].past
    /\ req[g].tok = req[h].tok
    /\ req[g].acq = "ok" /\ req[h].acq = "ok"
    /\ lastWrite.by \in {g, h}

\* of two refreshed credentials, the one whose refresh completed last
LaterRefresh(g, h) == IF req[g].new.access > req[h].new.access THEN req[g].new ELSE req[h].new

\* C7 (as claimed): after two concurrent GetYouTubeService calls on an expired
\* credential the holder holds the result of the refresh that completed last.
C7_LastCompletedRefreshWins ==
    \A g, h \in Handlers :
        BothRefreshed(g, h) => tokenStore = LaterRefresh(g, h)

\* C8: when the refresher's refresh request fails the refresher sets the holder
\* to absent, and an IsAuthenticated() that finds the holder as the refresher
\* cleared it returns false.
C8_FailedRefreshClears ==
    /\ [][(bg.pc = "refresh" /\ bg'.pc = "select") =>
              /\ tokenStore' = NIL
              /\ ~IsAuthenticated'
              /\ lastWrite'.kind = "bg_clear"]_vars
    /\ [](\A h \in Handlers :
            (req[h].op = "isauth" /\ req[h].lw = "bg_clear") => req[h].out = "false")

\* C8 witness: the refresher has cleared the holder after a failed refresh and
\* an IsAuthenticated() made after that has returned false.
C8_Witness ==
    /\ lastWrite.kind = "bg_clear"
    /\ tokenStore = NIL
    /\ bg.tok # NIL /\ bg.net
    /\ \E h \in Handlers :
          req[h].op = "isauth" /\ req[h].lw = "bg_clear" /\ req[h].out = "false"

\* C9 (as claimed): on every tick on which a credential is held that is invalid
\* or within 30 minutes of its expiry, the refresher makes a refresh request.
C9_TickRefreshes ==
    [][(bg.pc = "select" /\ tickPending /\ ~tickPending' /\ tokenStore # NIL
          /\ NeedsProactiveRefresh(tokenStore, now)) => bg'.net]_vars

\* C10 (as claimed): once the ctx is cancelled the refresher exits, and it
\* writes the holder no more.
C10_NoWriteAfterCancel ==
    /\ cancelled ~> (bg.pc = "exited")
    /\ [](~lateWrite)

\* C10 (amended): once the ctx is cancelled the refresher exits; a tick under
\* way runs to its end first, and once the refresher has exited it writes the
\* holder no more.
C10_ExitsAfterCancel ==
    /\ cancelled ~> (bg.pc = "exited")
    /\ [][bg.pc = "exited" => (bg' = bg /\ (lastWrite'.by = "bg" => lastWrite' = lastWrite
                                             /\ tokenStore' = tokenStore))]_vars

\* C10 witness: the refresher has exited after a cancellation that caught a
\* refresh under way, which it ended by clearing the holder.
C10_Witness ==
    /\ cancelled
    /\ bg.pc = "exited"
    /\ lateWrite
    /\ lastWrite.kind = "bg_clear"

\* C11: IsAuthenticated() returns true exactly when the holder is not absent
\* at the moment of the call, whether or not the credential has expired.
C11_IsAuthenticatedIffPresent ==
    [][\A h \in Handlers :
          (Moves(h) /\ req'[h].op = "isauth") =>
              (req'[h].out = "true" <=> tokenStore # NIL)]_vars

\* C11 witness: IsAuthenticated() has returned true on a credential whose
\* expiry was in the past.
C11_Witness ==
    \E h \in Handlers :
        /\ req[h].op = "isauth"
        /\ req[h].past
        /\ req[h].out = "true"

\* ---- claims about the HTTP layer ----

\* goroutine h takes a step of the HTTP request it serves
Serves(h) == http'[h] # http[h]

\* C12: every POST /mcp request, whatever its method, meets the gate first:
\* when IsAuthenticated() is false at the gate it is answered with HTTP 401
\* and the 'unauthorized' body and never reaches the dispatcher; when it is
\* true it is handed to the dispatcher.  The other routes are never gated.
C12_Gate ==
    /\ [][\A h \in Handlers :
            (http[h].pc = "gate" /\ Serves(h)) =>
                IF tokenStore = NIL
                THEN /\ http'[h].pc = "done"
                     /\ http'[h].gate = "deny"
                     /\ http'[h].resp = sendUnauthorized
                     /\ ~http'[h].dispatched
                ELSE /\ http'[h].pc = "mcp"
                     /\ http'[h].gate = "pass"
                     /\ http'[h].resp = NoResp]_vars
    /\ [](\A h \in Handlers :
            /\ http[h].rq.route = "/mcp" =>
                  /\ http[h].pc # "gate" => http[h].gate # "none"
                  /\ http[h].dispatched => http[h].gate = "pass"
                  /\ http[h].gate = "deny" =>
                        /\ http[h].resp.status = 401
                        /\ http[h].resp.body = "unauthorized"
                        /\ http[h].call = NoCall
                        /\ req[h] = IdleReq
                  /\ http[h].gate = "pass" => (http[h].pc = "mcp" \/ http[h].dispatched)
            /\ http[h].rq.route # "/mcp" =>
                  /\ http[h].gate = "none"
                  /\ ~http[h].dispatched
                  /\ http[h].resp.status # 401)

\* C12 witness: a well-formed tools/call has been turned away at the gate
\* with 401 after the refresher had cleared the holder, the dispatcher not
\* invoked.
C12_Witness ==
    \E h \in Handlers :
        /\ http[h].rq \in {ToolsCall(n, a) : n \in {"get_video_metadata"}, a \in ToolArguments("get_video_metadata")}
        /\ AsString(http[h].rq.args["video_id"]) # ""
        /\ http[h].gate = "deny"
        /\ http[h].resp = sendUnauthorized
        /\ ~http[h].dispatched
        /\ lastWrite.kind = "bg_clear"

\* texts that tell the client to authorize
MentionsAuthorization(text) ==
    text \in {ApiErrorText(fn, "not_authenticated") :
                 fn \in {"GetVideoMetadata", "SearchVideos", "GetVideoComments"}}

\* C13 (as claimed): a tools/call for get_video_metadata with empty arguments,
\* sent before any authorization, is answered with a result whose isError is
\* true and whose text mentions authorization, with status 200 or 401.
C13_ToolErrorBeforeAuthorization ==
    \A h \in Handlers :
        (/\ http[h].rq = ToolsCall("get_video_metadata", NoArgs)
         /\ http[h].pc = "done"
         /\ lastWrite.by = "none") =>
            /\ http[h].resp.result.isError
            /\ MentionsAuthorization(http[h].resp.result.text)
            /\ http[h].resp.status \in {200, 401}

\* the tools handleToolsCall has a case for
DispatchedTools == {"get_video_metadata", "search_videos", "get_video_comments"}

\* the required string argument of a tool
RequiredArg(name) == IF name = "search_videos" THEN "query" ELSE "video_id"

\* the dispatcher has run a tools/call of tool name, its params decoded
ToolCalled(h, name) ==
    /\ http[h].dispatched
    /\ http[h].rq.body = "json"
    /\ http[h].rq.method = "tools/call"
    /\ http[h].rq.params = "ok"
    /\ http[h].rq.name = name

\* C14: a tool call whose required string argument is missing or empty is
\* answered with a tool-result error (a JSON-RPC result with isError true, no
\* error object), and makes no client acquisition, no refresh request and no
\* API request.
C14_MissingArgumentIsToolError ==
    \A h \in Handlers : \A name \in DispatchedTools :
        (ToolCalled(h, name) /\ http[h].rq.args[RequiredArg(name)] \in {JAbsent, JStr("")}) =>
            /\ http[h].pc = "done"
            /\ http[h].resp.status = 200
            /\ http[h].resp.error = 0
            /\ http[h].resp.result.isError
            /\ http[h].resp.result.ctype = "text"
            /\ http[h].call = NoCall
            /\ req[h].op = "none" /\ req[h].net = 0 /\ req[h].api = 0

\* C14 witness: on an authenticated session a search_videos with an empty
\* query has been answered with the tool-result error and no call was made.
C14_Witness ==
    \E h \in Handlers :
        /\ ToolCalled(h, "search_videos")
        /\ http[h].rq.args["query"] = JStr("")
        /\ http[h].resp = sendToolError("query is required")
        /\ req[h] = IdleReq
        /\ tokenStore # NIL

\* C15 (as claimed): a tools/call whose required argument is missing or of the
\* wrong type is answered with the JSON-RPC error -32602 and no result.
C15_BadArgumentIsInvalidParams ==
    \A h \in Handlers : \A name \in DispatchedTools :
        (ToolCalled(h, name) /\ http[h].rq.args[RequiredArg(name)].t \in {"absent", "number"}) =>
            /\ http[h].resp.error = -32602
            /\ http[h].resp.result = NoResult

\* C15 (amended): -32602 answers a tools/call exactly when its params do not
\* decode into a tool name and an argument map; a required argument that is
\* missing or of the wrong type is answered by the tool handler with a
\* tool-result error, with no error object.
C15_InvalidParamsOnlyOnDecode ==
    \A h \in Handlers :
        (http[h].dispatched /\ http[h].rq.body = "json" /\ http[h].rq.method = "tools/call") =>
            /\ http[h].rq.params = "bad" <=> http[h].resp.error = -32602
            /\ http[h].rq.params = "bad" =>
                  (http[h].pc = "done" /\ http[h].resp.result = NoResult /\ http[h].call = NoCall)
            /\ \A name \in DispatchedTools :
                  (ToolCalled(h, name) /\ http[h].rq.args[RequiredArg(name)].t \in {"absent", "number"}) =>
                      /\ http[h].resp.error = 0
                      /\ http[h].resp.result.isError
                      /\ http[h].resp.status = 200

\* C15 witness: a get_video_metadata whose video_id is a number has been
\* answered with the tool-result error.
C15_Witness ==
    \E h \in Handlers :
        /\ ToolCalled(h, "get_video_metadata")
        /\ http[h].rq.args["video_id"].t = "number"
        /\ http[h].resp = sendToolError("video_id is required")
        /\ http[h].resp.error # -32602

\* C16: a well-formed tool invocation that fails, because GetYouTubeService
\* finds no credential, because the refresh is rejected or because the API
\* request fails, is answered with a JSON-RPC result whose isError is true and
\* whose one content item is the failure text, never with an error object; and
\* every answer of the dispatcher carries exactly one of result and error.
C16_FailureIsToolResult ==
    \A h \in Handlers :
        /\ \A name \in DispatchedTools :
              (/\ ToolCalled(h, name)
               /\ http[h].pc = "done"
               /\ req[h].op = "tool"
               /\ req[h].out = "error") =>
                  /\ http[h].resp.status = 200
                  /\ http[h].resp.error = 0
                  /\ http[h].resp.result.isError
                  /\ http[h].resp.result.ctype = "text"
                  /\ http[h].resp.result.text = ApiErrorText(http[h].call.fn, req[h].acq)
        /\ (http[h].dispatched /\ http[h].pc = "done") =>
              /\ http[h].resp.body = "jsonrpc"
              /\ (http[h].resp.result # NoResult) # (http[h].resp.error # 0)

\* C16 witness: a tool call passed the gate, found the holder cleared when it
\* acquired the client, and was answered with the not-authenticated text as a
\* tool-result error.
C16_Witness ==
    \E h \in Handlers :
        /\ ToolCalled(h, "get_video_comments")
        /\ http[h].gate = "pass"
        /\ req[h].acq = "not_authenticated"
        /\ http[h].resp = sendToolError(ApiErrorText("GetVideoComments", "not_authenticated"))
        /\ MentionsAuthorization(http[h].resp.result.text)

\* C16, the other two failures are reached too: a rejected refresh
C16_WitnessRefresh ==
    \E h \in Handlers :
        /\ ToolCalled(h, "search_videos")
        /\ req[h].acq = "refresh_error" /\ req[h].net = 1
        /\ http[h].resp = sendToolError(ApiErrorText("SearchVideos", "refresh_error"))

\* C16, the other two failures are reached too: a failed API request
C16_WitnessApi ==
    \E h \in Handlers :
        /\ ToolCalled(h, "get_video_metadata")
        /\ req[h].acq = "ok" /\ req[h].api = 1 /\ req[h].out = "error"
        /\ http[h].resp = sendToolError(ApiErrorText("GetVideoMetadata", "ok"))

\* the methods HandleMCP has a case for
McpMethods == {"initialize", "tools/list", "tools/call"}

\* a request the dispatcher answers with a protocol error: a body that is no
\* JSON, a method it does not know, or a tools/call naming no catalogued tool
ProtocolErrorCase(rq) ==
    \/ rq.body # "json"
    \/ rq.body = "json" /\ rq.method \notin McpMethods
    \/ rq.body = "json" /\ rq.method = "tools/call" /\ rq.params # "bad"
       /\ rq.name \notin CataloguedTools

\* C17: a body that is not valid JSON is answered with -32700, a method other
\* than initialize, tools/list and tools/call with -32601, a tools/call naming
\* an unknown tool with a JSON-RPC error object; none of them acquires a
\* client or makes an external call, and the step leaves the holder as it was.
C17_ProtocolErrors ==
    /\ [](\A h \in Handlers :
            (http[h].dispatched /\ ProtocolErrorCase(http[h].rq)) =>
                /\ http[h].rq.body # "json" => http[h].resp.error = -32700
                /\ (http[h].rq.body = "json" /\ http[h].rq.method \notin McpMethods) =>
                      http[h].resp.error = -32601
                /\ http[h].resp.error # 0
                /\ http[h].resp.result = NoResult
                /\ http[h].pc = "done"
                /\ http[h].call = NoCall
                /\ req[h].op = "none" /\ req[h].net = 0 /\ req[h].api = 0)
    /\ [][\A h \in Handlers :
            (http[h].pc = "mcp" /\ Serves(h) /\ ProtocolErrorCase(http[h].rq)) =>
                /\ tokenStore' = tokenStore
                /\ lastWrite' = lastWrite
                /\ req' = req]_vars

\* C17 witness: on an authenticated session a body that is not JSON has been
\* answered with -32700, the credential still held.
C17_Witness ==
    \E h \in Handlers :
        /\ http[h].dispatched
        /\ http[h].rq.body = "malformed"
        /\ http[h].resp = sendErrorResponse(-32700)
        /\ tokenStore # NIL

\* C18: a tool call makes at most one API request: none when an argument is
\* rejected or the client cannot be acquired, one when the client is acquired
\* (or none, and an error, when the token has expired since and the client
\* cannot renew it), and after a failed request the handler answers without
\* sending it again.
C18_AtMostOneApiRequest ==
    /\ [](\A h \in Handlers :
            /\ req[h].api <= 1
            /\ (http[h].rq.route = "/mcp" /\ http[h].pc = "done") =>
                  /\ req[h].api = 1 => (req[h].op = "tool" /\ req[h].acq = "ok")
                  /\ (req[h].op = "tool" /\ req[h].acq = "ok" /\ req[h].api = 0) =>
                        (req[h].out = "error" /\ req[h].sent = NIL))
    /\ [][\A h \in Handlers :
            (/\ http[h].pc = "service"
             /\ req[h].op = "tool" /\ req[h].pc = "idle" /\ req[h].out = "error"
             /\ (Moves(h) \/ Serves(h))) =>
                /\ http'[h].pc = "done"
                /\ http'[h].resp.result.isError
                /\ req'[h] = req[h]]_vars

\* C18 witness: one API request was made, it failed, and the tool call was
\* answered with the error.
C18_Witness ==
    \E h \in Handlers :
        /\ ToolCalled(h, "search_videos")
        /\ http[h].pc = "done"
        /\ req[h].api = 1
        /\ req[h].out = "error"
        /\ http[h].resp = sendToolError(ApiErrorText("SearchVideos", "ok"))

\* the service method of the documented catalogue for a tool
ServiceMethod(name) ==
    IF name = "get_video_metadata" THEN "GetVideoMetadata"
    ELSE IF name = "search_videos" THEN "SearchVideos"
    ELSE IF name = "get_video_comments" THEN "GetVideoComments"
    ELSE IF name = "reply_to_comment" THEN "ReplyToComment"
    ELSE "AddVideoToPlaylist"

\* the arguments of a request hold, as non-empty strings, the required
\* arguments of its tool that the request carries, and carry one at least
WellFormed(rq) ==
    /\ \A k \in {"video_id", "query", "comment_id", "text", "playlist_id"} :
          rq.args[k] # JAbsent => AsString(rq.args[k]) # ""
    /\ \E k \in {"video_id", "query", "comment_id", "text", "playlist_id"} :
          AsString(rq.args[k]) # ""

\* C19 (as claimed): on an authenticated session a tools/call naming any of
\* the five catalogued tools, with its required arguments, is dispatched to
\* the service method of that tool and is not rejected as an unknown tool.
C19_AllCataloguedToolsDispatched ==
    \A h \in Handlers : \A name \in CataloguedTools :
        (ToolCalled(h, name) /\ WellFormed(http[h].rq)) =>
            /\ http[h].resp.error # -32601
            /\ http[h].call.fn = ServiceMethod(name)

\* a JSON number that is a whole number other than 0
WholeNonZero(j) == j.t = "number" /\ j.n2 # 0 /\ j.n2 % 2 = 0

\* C20: with the optional arguments left out the handlers pass the documented
\* defaults to the service call: get_video_comments limit 20 and sort_by
\* "top", search_videos limit 10; a limit supplied as a whole number other
\* than 0 and a sort_by supplied as a non-empty string are passed as supplied
\* (any number other than 0 is passed with its fraction dropped).
C20_Defaults ==
    \A h \in Handlers :
        LET args == http[h].rq.args
            call == http[h].call
        IN /\ (ToolCalled(h, "get_video_comments") /\ AsString(args["video_id"]) # "") =>
                 /\ call.fn = "GetVideoComments"
                 /\ call.s1 = args["video_id"].s
                 /\ args["limit"] = JAbsent => call.limit = 20
                 /\ args["sort_by"] = JAbsent => call.s2 = "top"
                 /\ WholeNonZero(args["limit"]) => 2 * call.limit = args["limit"].n2
                 /\ (IsNumber(args["limit"]) /\ args["limit"].n2 # 0) =>
                       call.limit = Int64(args["limit"].n2)
                 /\ AsString(args["sort_by"]) # "" => call.s2 = args["sort_by"].s
           /\ (ToolCalled(h, "search_videos") /\ AsString(args["query"]) # "") =>
                 /\ call.fn = "SearchVideos"
                 /\ call.s1 = args["query"].s
                 /\ call.s2 = AsString(args["channel_id"])
                 /\ args["limit"] = JAbsent => call.limit = 10
                 /\ WholeNonZero(args["limit"]) => 2 * call.limit = args["limit"].n2
                 /\ (IsNumber(args["limit"]) /\ args["limit"].n2 # 0) =>
                       call.limit = Int64(args["limit"].n2)

\* C20 witness: a get_video_comments with only video_id has made its API
\* request with limit 20 and sort_by "top".
C20_Witness ==
    \E h \in Handlers :
        /\ ToolCalled(h, "get_video_comments")
        /\ http[h].rq.args = [NoArgs EXCEPT !["video_id"] = JStr("id1")]
        /\ http[h].call = ServiceCall("GetVideoComments", "id1", "top", 20)
        /\ req[h].api = 1

\* C20, the supplied values are reached too: limit 5 and sort_by "time"
C20_WitnessSupplied ==
    \E h \in Handlers :
        /\ ToolCalled(h, "get_video_comments")
        /\ http[h].rq.args["limit"] = JNum(10)
        /\ http[h].rq.args["sort_by"] = JStr("time")
        /\ http[h].call = ServiceCall("GetVideoComments", "id1", "time", 5)
        /\ req[h].api = 1

\* C21: the stored credential is absent at start and goes from absent to
\* present only by a successful code exchange: once the refresher has cleared
\* it, no in-flight GetYouTubeService call and no refresher step brings it
\* back
C21_PresentOnlyByExchange ==
    [][tokenStore = NIL /\ tokenStore' # NIL => lastWrite'.kind = "exchange"]_vars

\* C22: when the refresh GetYouTubeService makes for a tool call fails, the
\* call returns an error without any API request, and the request is answered
\* with status 200 and a tool-result error (isError true, no error object)
\* whose text reports the failed token refresh; the answer is never a 500.
C22_RefreshFailureIsToolError ==
    \A h \in Handlers : \A name \in DispatchedTools :
        (/\ ToolCalled(h, name)
         /\ req[h].op = "tool"
         /\ req[h].pc = "idle"
         /\ req[h].acq = "refresh_error") =>
            /\ req[h].out = "error"
            /\ req[h].api = 0
            /\ http[h].pc \in {"service", "done"}
            /\ http[h].pc = "done" =>
                  /\ http[h].resp.status = 200
                  /\ http[h].resp.body = "jsonrpc"
                  /\ http[h].resp.error = 0
                  /\ http[h].resp.result.isError
                  /\ http[h].resp.result.text =
                        "API Error: failed to get YouTube service: failed to retrieve or refresh token: <error>"

\* C22 witness: an expired credential was read for get_video_metadata, the
\* refresh request was sent and failed, and the answer is the tool-result error
C22_Witness ==
    \E h \in Handlers :
        /\ ToolCalled(h, "get_video_metadata")
        /\ http[h].pc = "done"
        /\ req[h].tok # NIL /\ req[h].past /\ req[h].net = 1
        /\ req[h].acq = "refresh_error"
        /\ http[h].resp.status = 200
        /\ http[h].resp.result.isError

\* C23: GetYouTubeService writes the holder only when the access token the
\* token source returned differs from the one it read (a fresh credential is
\* reused and nothing is written), and when it writes, the holder still
\* contains the credential it read: no write by an exchange or by the
\* refresher has landed in between to be overwritten.
C23_WritesOnlyNewAtomically ==
    [][\A h \in Handlers :
          (/\ Moves(h)
           /\ req'[h].op = "tool"
           /\ tokenStore' # tokenStore) =>
              /\ req[h].pc = "a_store"
              /\ req[h].new.access # req[h].tok.access
              /\ tokenStore' = req[h].new
              /\ tokenStore = req[h].tok]_vars

\* C24: when GOOGLE_CLIENT_ID or GOOGLE_CLIENT_SECRET is missing or empty the
\* process stops in Load with a fatal error: no Config, no refresher, no
\* signal handler, no listener, no request served, nothing stored.  When both
\* are set, Load does not fail and the port is PORT, or 8080 when PORT is
\* missing or empty.
C24_FatalBeforeAnything ==
    LET id == Getenv(proc.env, "GOOGLE_CLIENT_ID")
        secret == Getenv(proc.env, "GOOGLE_CLIENT_SECRET")
        port == Getenv(proc.env, "PORT")
    IN /\ (id = "" \/ secret = "") =>
              /\ proc.pc \in {"load", "fatal_config", "killed"}
              /\ proc.cfg = NoConfig
              /\ ~proc.refresher
              /\ proc.sd = "none"
              /\ ~Listening
              /\ proc.conn = "none"
              /\ bg = IdleBg /\ now = 0 /\ tokenStore = NIL
              /\ \A h \in Handlers : req[h] = IdleReq
       /\ (id # "" /\ secret # ""
           /\ (proc.pc \notin {"load", "killed"} \/ proc.cfg # NoConfig)) =>
              /\ proc.pc # "fatal_config"
              /\ proc.cfg.GoogleClientID = id
              /\ proc.cfg.GoogleClientSecret = secret
              /\ proc.cfg.Port = IF port = "" THEN "8080" ELSE port

\* C24 witness: the client id is set, the secret is set to the empty string,
\* and the process has ended in Load
C24_Witness ==
    /\ proc.env["GOOGLE_CLIENT_ID"] = "client-id"
    /\ proc.env["GOOGLE_CLIENT_SECRET"] = ""
    /\ proc.pc = "fatal_config"

\* C24, the other case is reached too: both credentials set, PORT not set, and
\* the server listening on 8080 with a request served
C24_WitnessDefaultPort ==
    /\ proc.env["PORT"] = Unset
    /\ proc.cfg.Port = "8080"
    /\ Listening
    /\ req["h1"].op # "none"

\* C25: a SIGINT or SIGTERM fires the ctx given to TokenRefresher, so that the
\* refresher has returned by the time the shutdown is complete
\* (server.Shutdown has returned, or main has logged "Server shutdown
\* complete").
C25_RefresherStoppedAtShutdown ==
    (proc.sd = "done" \/ proc.pc \in {"complete", "exited"}) =>
        /\ cancelled
        /\ bg.pc = "exited"

\* C26: the gate does not stand for the acquisition.  A tools/call that passed
\* the gate and then finds the holder absent when GetYouTubeService reads it
\* (the refresher has cleared it in between) fails with the not-authenticated
\* error: no refresh request and no API request are made, and the answer is a
\* tool-result error (isError true) whose text tells the user to authorize.
C26_ClearedAfterGate ==
    \A h \in Handlers : \A name \in DispatchedTools :
        (/\ ToolCalled(h, name)
         /\ http[h].gate = "pass"
         /\ req[h].op = "tool"
         /\ req[h].tok = NIL) =>
            /\ req[h].pc = "idle"
            /\ req[h].acq = "not_authenticated"
            /\ req[h].out = "error"
            /\ req[h].net = 0
            /\ req[h].api = 0
            /\ http[h].pc = "done" =>
                  /\ http[h].resp.status = 200
                  /\ http[h].resp.error = 0
                  /\ http[h].resp.result.isError
                  /\ MentionsAuthorization(http[h].resp.result.text)

\* C26 witness: search_videos passed the gate, the refresher's clear was the
\* last write when the client was acquired, and the request has been answered
\* with the tool-result error
C26_Witness ==
    \E h \in Handlers :
        /\ ToolCalled(h, "search_videos")
        /\ http[h].gate = "pass"
        /\ http[h].pc = "done"
        /\ req[h].op = "tool" /\ req[h].tok = NIL
        /\ lastWrite.kind = "bg_clear"
        /\ http[h].resp.result.isError
        /\ req[h].api = 0

\* C27: with no refresher step at all, the credential GetYouTubeService gets
\* from the token source is not expired when it is delivered (the stored one
\* while still valid, with nothing written; or a refreshed one), and a call
\* returns success only with such a credential: either the stored one reused,
\* or the refreshed one, which is then the one in the holder.  The API
\* request the client then sends carries a credential that is not expired
\* when it goes out.
C27_LazyPathSuffices ==
    [][\A h \in Handlers :
          (Moves(h) /\ req'[h].op = "tool") =>
              /\ (req[h].pc \in {"idle", "a_refresh"} /\ req'[h].pc \in {"api", "a_store"}) =>
                    /\ req'[h].new # NIL
                    /\ req'[h].new.access # 0
                    /\ now < req'[h].new.expiry
              /\ (req[h].pc = "idle" /\ req'[h].pc = "api") =>
                    /\ req'[h].new = tokenStore
                    /\ req'[h].net = 0
                    /\ tokenStore' = tokenStore
              /\ (req'[h].acq = "ok" /\ req[h].acq # "ok") =>
                    /\ req'[h].pc = "api"
                    /\ \/ req[h].pc = "idle"
                       \/ /\ req[h].pc = "a_store"
                          /\ req'[h].net = 1
                          /\ req'[h].new = req[h].new
                          /\ tokenStore' = req[h].new
              /\ (req[h].api = 0 /\ req'[h].api = 1) =>
                    /\ req'[h].sent # NIL
                    /\ req'[h].sent.access # 0
                    /\ now < req'[h].sent.expiry]_vars

\* C27 witness: the refresher has done nothing, the stored credential had
\* expired, and a call has returned success with the credential it refreshed,
\* which is stored and not expired
C27_Witness ==
    \E h \in Handlers :
        /\ bg = IdleBg
        /\ req[h].op = "tool" /\ req[h].acq = "ok"
        /\ req[h].past /\ req[h].net = 1
        /\ tokenStore = req[h].new
        /\ now < req[h].new.expiry

\* C28: a refresher tick that finds the holder absent, or holding a valid
\* credential whose expiry is more than 30 minutes away, goes back to its
\* select: no token source call, no refresh request, no token issued, and the
\* holder is left as it was.
C28_QuietTick ==
    [][(/\ tickPending /\ ~tickPending'
        /\ \/ tokenStore = NIL
           \/ /\ tokenStore # NIL
              /\ tokenStore.access # 0
              /\ now + ExpiryDelta <= tokenStore.expiry
              /\ now + RefreshWindow < tokenStore.expiry) =>
           /\ bg'.pc = "select"
           /\ ~bg'.net
           /\ bg'.new = NIL
           /\ issued' = issued
           /\ tokenStore' = tokenStore
           /\ lastWrite' = lastWrite]_vars

\* C28 witness: the tick of the current quarter of an hour has been taken, the
\* refresher went straight back to its select, and the holder holds the
\* credential of the exchange, more than 30 minutes from its expiry
C28_Witness ==
    /\ now > 0 /\ ~tickPending
    /\ bg = IdleBg
    /\ tokenStore # NIL
    /\ now + RefreshWindow < tokenStore.expiry
    /\ lastWrite.kind = "exchange"

\* a limit that is supplied, and is 0 or not a number
ZeroOrNotNumber(j) == j # JAbsent /\ (j.t # "number" \/ j.n2 = 0)

\* C29: a limit that is supplied as 0, or as something that is not a number,
\* is handled as a missing one: search_videos calls the service with 10 and
\* get_video_comments with 20, the other arguments as supplied, and the answer
\* is no argument error (no "... is required" text, no -32602).
C29_ZeroOrBadLimitIsDefault ==
    \A h \in Handlers :
        LET args == http[h].rq.args
            call == http[h].call
            NoArgumentError ==
                /\ http[h].pc \in {"service", "done"}
                /\ http[h].resp.error # -32602
                /\ http[h].resp.result.text \notin {"query is required", "video_id is required"}
        IN /\ (/\ ToolCalled(h, "search_videos")
               /\ AsString(args["query"]) # ""
               /\ ZeroOrNotNumber(args["limit"])) =>
                  /\ call = ServiceCall("SearchVideos", args["query"].s,
                                        AsString(args["channel_id"]), 10)
                  /\ NoArgumentError
           /\ (/\ ToolCalled(h, "get_video_comments")
               /\ AsString(args["video_id"]) # ""
               /\ ZeroOrNotNumber(args["limit"])) =>
                  /\ call.fn = "GetVideoComments"
                  /\ call.s1 = args["video_id"].s
                  /\ call.limit = 20
                  /\ NoArgumentError

\* C29 witness: a search_videos whose limit is the string "5" has made its API
\* request with limit 10 and has been answered with the result
C29_Witness ==
    \E h \in Handlers :
        /\ ToolCalled(h, "search_videos")
        /\ http[h].rq.args["limit"] = JStr("5")
        /\ http[h].call.limit = 10
        /\ req[h].api = 1
        /\ http[h].resp = sendToolResult

\* C29, the other cases are reached too: get_video_comments with limit 0
C29_WitnessZero ==
    \E h \in Handlers :
        /\ ToolCalled(h, "get_video_comments")
        /\ http[h].rq.args["limit"] = JNum(0)
        /\ http[h].call.limit = 20
        /\ req[h].api = 1

\* C30 (as claimed): a client that drops its GET /oauth/callback while the
\* code exchange is in flight does not reach the exchange: no exchange ends
\* because its request was cancelled.
C30_DisconnectDoesNotPropagate ==
    \A h \in Handlers :
        ~(req[h].op = "exchange" /\ req[h].acq = "cancelled")

\* C30: the code exchange runs under the request's ctx.  It is given up for
\* cancellation only when the client has dropped the request, and then, as
\* with any failed exchange, nothing is written and the handler answers 500;
\* an exchange whose token response still arrives stores the credential,
\* whether the client is gone or not.
C30_DisconnectAbortsOrCompletes ==
    [][\A h \in Handlers :
          /\ (req[h].pc \in {"x_exchange", "x_store"} /\ req'[h].pc = "idle") =>
                IF req'[h].out = "ok"
                THEN /\ tokenStore' = req'[h].new
                     /\ tokenStore' # NIL
                     /\ lastWrite'.kind = "exchange"
                ELSE /\ tokenStore' = tokenStore
                     /\ lastWrite' = lastWrite
                     /\ req'[h].acq = "cancelled" => http[h].gone
          /\ (http[h].rq.route = "/oauth/callback" /\ http[h].pc # "done" /\ http'[h].pc = "done"
              /\ req[h].acq = "cancelled") =>
                http'[h].resp.status = 500]_vars

\* C30 witness: the client dropped its callback request, the exchange was
\* given up, nothing is stored and the handler has written its 500
C30_Witness ==
    \E h \in Handlers :
        /\ http[h].rq.route = "/oauth/callback"
        /\ http[h].gone
        /\ http[h].pc = "done"
        /\ req[h].op = "exchange" /\ req[h].acq = "cancelled"
        /\ http[h].resp.status = 500
        /\ tokenStore = NIL

\* C30, the other case is reached too: the client is gone and the exchange
\* has stored its credential
C30_WitnessStored ==
    \E h \in Handlers :
        /\ http[h].rq.route = "/oauth/callback"
        /\ http[h].gone
        /\ req[h].op = "exchange" /\ req[h].out = "ok"
        /\ tokenStore = req[h].new

\* C31: the refresher's clear never discards a newer credential: when its
\* refresh of the credential it read on the tick fails while the holder
\* contains another credential (stored since by an exchange or by a lazy
\* refresh), the holder is not set to absent.
C31_ClearKeepsNewer ==
    [][(/\ bg.pc = "refresh"
        /\ bg'.pc = "select"
        /\ tokenStore # NIL
        /\ tokenStore # bg.tok) => tokenStore' # NIL]_vars

\* C32: a refresh result never overwrites a newer authorization: when an
\* exchange was the last to write the holder and its credential is not the
\* one a GetYouTubeService call or a refresher tick read, the store that ends
\* that call or tick leaves the holder as it is.
C32_RefreshKeepsNewerExchange ==
    [][/\ \A h \in Handlers :
             (/\ req[h].pc = "a_store" /\ Moves(h)
              /\ lastWrite.kind = "exchange"
              /\ tokenStore # req[h].tok) => tokenStore' = tokenStore
       /\ (/\ bg.pc = "store" /\ bg'.pc = "select"
           /\ lastWrite.kind = "exchange"
           /\ tokenStore # bg.tok) => tokenStore' = tokenStore]_vars

\* C33: the holder goes from present to absent only by the refresher's
\* SetToken(nil) after a refresh of its own that failed; no step of a request
\* goroutine (the gate, the dispatcher and its errors, a failed exchange, a
\* failed lazy refresh, a failed API request, the open routes) does it.
C33_OnlyRefresherClears ==
    [][(tokenStore # NIL /\ tokenStore' = NIL) =>
          /\ bg.pc = "refresh"
          /\ bg'.pc = "select"
          /\ bg'.tok # NIL
          /\ lastWrite' = [by |-> "bg", kind |-> "bg_clear"]
          /\ req' = req
          /\ http' = http]_vars

\* C33 witness: the holder is absent after the refresher's failed refresh,
\* and the request goroutine has had a failed API request answered before
C33_Witness ==
    /\ tokenStore = NIL
    /\ lastWrite = [by |-> "bg", kind |-> "bg_clear"]
    /\ bg.net
    /\ \E h \in Handlers :
          /\ req[h].op = "tool" /\ req[h].api = 1 /\ req[h].out = "error"
          /\ http[h].pc = "done"

\* C34: a GetYouTubeService call whose refresh fails writes nothing: the
\* credential it read stays in the holder as it was, so IsAuthenticated (and
\* with it the gate) still answers true, expired as the credential is.  The
\* holder becomes absent only by the refresher's clear, and is replaced only
\* by an exchange or by a refresh that succeeded.
C34_FailedLazyRefreshKeepsCredential ==
    [][/\ \A h \in Handlers :
             (/\ Moves(h)
              /\ req'[h].op = "tool"
              /\ req'[h].acq = "refresh_error") =>
                 /\ tokenStore' = tokenStore
                 /\ lastWrite' = lastWrite
       /\ \A h \in Handlers :
             (/\ Moves(h)
              /\ req'[h].op = "isauth"
              /\ tokenStore # NIL) => req'[h].out = "true"
       /\ (tokenStore # NIL /\ tokenStore' = NIL) => lastWrite'.kind = "bg_clear"
       /\ (tokenStore # NIL /\ tokenStore' # tokenStore /\ tokenStore' # NIL) =>
             lastWrite'.kind \in {"exchange", "lazy", "bg_store"}]_vars

\* C34 witness: one call's refresh of the expired credential has failed, the
\* credential is the one the exchange stored, and IsAuthenticated, asked
\* after it had expired, has answered true
C34_Witness ==
    \E g, h \in Handlers :
        /\ req[g].op = "tool" /\ req[g].acq = "refresh_error" /\ req[g].net = 1
        /\ tokenStore = req[g].tok
        /\ lastWrite.kind = "exchange"
        /\ req[h].op = "isauth" /\ req[h].past /\ req[h].out = "true"

\* C35: when the stored credential has expired and no refresh of it succeeds
\* and no new exchange succeeds, then, the ticker going on, the holder
\* eventually becomes absent and stays absent; and a POST /mcp that meets the
\* gate while the holder is absent is answered 401 and goes no further.
C35_FailFast ==
    /\ (tokenStore # NIL /\ tokenStore.expiry - ExpiryDelta < now) ~> [](tokenStore = NIL)
    /\ [][\A h \in Handlers :
             (http[h].pc = "gate" /\ Serves(h) /\ tokenStore = NIL) =>
                 /\ http'[h].pc = "done"
                 /\ http'[h].resp = sendUnauthorized
                 /\ ~http'[h].dispatched]_vars

\* C35 witness: a credential the provider issued after the first clock move
\* was read by the refresher after its expiry, its refresh failed, the holder
\* is absent, and a POST /mcp has been answered 401
C35_Witness ==
    /\ tokenStore = NIL
    /\ lastWrite.kind = "bg_clear"
    /\ bg.tok # NIL /\ bg.tok.expiry < now /\ bg.net
    /\ bg.tok.expiry > TokenLifetime
    /\ \E h \in Handlers :
          /\ http[h].rq.route = "/mcp"
          /\ http[h].pc = "done"
          /\ http[h].resp.status = 401

\* C35, the late store is reached too: the exchange's token is still to be
\* stored although it has expired and the followed clock has run out
C35_WitnessLateStore ==
    \E h \in Handlers :
        /\ req[h].pc = "x_store"
        /\ req[h].new.expiry < now
        /\ now = MaxTicksRevoked * TickerInterval
        /\ ~tickPending

\* C36: a GET /oauth/callback with a non-empty error parameter, or with no
\* code, is answered 400 in one step that starts no exchange and writes
\* nothing; with both an error and a code it is the error that decides.  Such
\* a request never has an exchange of its own.
C36_CallbackRejected ==
    /\ [][\A h \in Handlers :
             (/\ http[h].pc = "callback" /\ Serves(h)
              /\ (http[h].rq.error # "" \/ http[h].rq.code = "")) =>
                 /\ http'[h].pc = "done"
                 /\ http'[h].resp.status = 400
                 /\ req' = req
                 /\ tokenStore' = tokenStore
                 /\ lastWrite' = lastWrite]_vars
    /\ [](\A h \in Handlers :
             (/\ http[h].rq.route = "/oauth/callback"
              /\ (http[h].rq.error # "" \/ http[h].rq.code = "")) =>
                 /\ http[h].pc \in {"callback", "done"}
                 /\ req[h].op = "none")

\* C36 witness: a callback carrying both a code and an error has been
\* answered 400 with no exchange and nothing stored
C36_Witness ==
    \E h \in Handlers :
        /\ http[h].rq.route = "/oauth/callback"
        /\ http[h].rq.code = "code1" /\ http[h].rq.error = "access_denied"
        /\ http[h].pc = "done"
        /\ http[h].resp.status = 400
        /\ req[h].op = "none"
        /\ tokenStore = NIL

\* C37: for a limit that is absent or a whole number, the limit of every
\* API request search_videos and get_video_comments make is at least 1,
\* whatever the number sent (0 and negative numbers included).
C37_LimitAtLeastOne ==
    \A h \in Handlers :
        (/\ http[h].call.fn \in {"SearchVideos", "GetVideoComments"}
         /\ req[h].op = "tool" /\ req[h].api >= 1
         /\ IsNumber(http[h].rq.args["limit"]) => http[h].rq.args["limit"].n2 % 2 = 0) =>
            http[h].call.limit >= 1

====
